---- MODULE Spec2Model ----
(***************************************************************************)
(* destinationstransfers/cache: the DestCache class (index.js) and the     *)
(* content store / key index library (lib/content/*, lib/entry-index.js).  *)
(*                                                                         *)
(* DestCache is a Map from keys to entries plus one file per digest in     *)
(* the cache directory.  Every `await` of an async method is a point where *)
(* another call of the same instance may run, so each method is split into *)
(* one action per filesystem call and one action per continuation.         *)
(***************************************************************************)
EXTENDS Integers, Sequences, FiniteSets, TLC

(***************************************************************************)
(* Bounds of the model.                                                    *)
(***************************************************************************)
NumKeys == 2
NumProcs == 2
\* lines appended to the bucket files
MaxLines == 3
\* calls issued in a run of concurrent calls
MaxCalls == 3
\* lines in the bucket files when verify starts
SetupLines == 2
TombLines == 3

Keys == 1..NumKeys
Procs == 1..NumProcs

(***************************************************************************)
(* Payloads.  set() takes a string or a Buffer; a string is a sequence of  *)
(* UTF-16 code units and is written to disk in UTF-8, a Buffer is a        *)
(* sequence of bytes.                                                      *)
(***************************************************************************)
Buf(b) == [kind |-> "buffer", units |-> b]
Str(s) == [kind |-> "string", units |-> s]

\* "a", "b", "é" as Buffers / strings
DataInputs == { Buf(<<97>>), Buf(<<98>>), Str(<<97>>), Str(<<233>>) }

Utf8Char(c) == IF c < 128 THEN <<c>> ELSE <<192 + (c \div 64), 128 + (c % 64)>>

RECURSIVE Utf8(_)
Utf8(s) == IF s = <<>> THEN <<>> ELSE Utf8Char(Head(s)) \o Utf8(Tail(s))

\* the bytes that writeFile / the hash see for a payload
Bytes(d) == IF d.kind = "string" THEN Utf8(d.units) ELSE d.units

\* data.length
DataLength(d) == Len(d.units)

AllBytes == { Bytes(d) : d \in DataInputs }

(***************************************************************************)
(* Digests.  The hash is collision free on the payloads of the model.      *)
(***************************************************************************)
RECURSIVE HashFrom(_, _)
HashFrom(h, b) == IF b = <<>> THEN h ELSE HashFrom(h * 257 + Head(b) + 1, Tail(b))

md5(b) == HashFrom(0, b)

\* the default algorithm of the content store (ssri, put.js)
sha512(b) == HashFrom(7, b)

Digest(algo, b) == IF algo = "md5" THEN md5(b) ELSE sha512(b)

INTEGRITY_ALGO == "md5"

\* ssri.fromData(data, {algorithms: [INTEGRITY_ALGO]}).toString()
Sri(h) == <<INTEGRITY_ALGO, h>>

\* ssri.fromData(data, {algorithms: opts.algorithms}) with the default algorithm
Sri512(b) == <<"sha512", sha512(b)>>

\* integrity.hexDigest(): the file name inside the cache directory
hexDigest(sri) == sri[2]

\* ssri.checkData(data, integrity)
checkData(b, sri) == Digest(sri[1], b) = sri[2]

\* an integrityStream that does not compare the size
IntegrityStreamError_NoSize(b, sri, size) ==
    IF ~checkData(b, sri) THEN "EINTEGRITY" ELSE ""

\* ssri.integrityStream({integrity, size}) at end of input: "" when verified
IntegrityStreamError(b, sri, size) ==
    IF Len(b) # size THEN "EBADSIZE"
    ELSE IF ~checkData(b, sri) THEN "EINTEGRITY"
    ELSE ""

Paths == { md5(b) : b \in AllBytes }

\* what a file can hold: a payload, or nothing yet (opened, not written)
Contents == AllBytes \cup {<<>>}

NoFile == [exists |-> FALSE, bytes |-> <<>>]
File(b) == [exists |-> TRUE, bytes |-> b]

NoEntry == [present |-> FALSE, path |-> 0, size |-> 0, integrity |-> Sri(0)]
Entry(p, s, i) == [present |-> TRUE, path |-> p, size |-> s, integrity |-> i]

NoRes == [status |-> "none", code |-> "", bytes |-> <<>>, entry |-> NoEntry]
Ok(b, e) == [status |-> "ok", code |-> "", bytes |-> b, entry |-> e]
Err(c) == [status |-> "err", code |-> c, bytes |-> <<>>, entry |-> NoEntry]

NoData == Buf(<<>>)

IdleCtx == [pc |-> "idle", op |-> "none", key |-> 1, data |-> NoData,
            flag |-> "wx", i |-> 0, lastError |-> "", entry |-> NoEntry,
            orphan |-> FALSE, seen |-> NoFile, res |-> NoRes]

VARIABLES
    map,      \* the Map of the DestCache instance: key -> entry
    disk,     \* files of the cache directory, by file name (hex digest)
    tmp,      \* the temp file of the setStream each caller runs (files left by
              \* earlier calls have random names and are never opened again)
    ctx,      \* the running calls: position and locals of each
    stored,   \* per key: bytes of the last completed set/setStream, if nothing touched the key since
    calls,    \* number of calls issued so far in a run of concurrent calls
    blobs,    \* content store: the blob files, by digest
    wtmp,     \* content store: the temp file of the write each caller runs
    wctx,     \* content store: the running write / read calls
    buckets,  \* key index: the bucket files, each a text
    log,      \* key index: per bucket, the entries whose append completed, in order
    now,      \* Date.now(): a clock that has moved on at every insert
    found,    \* key index: the last find and its result
    listed,   \* key index: the last ls and its result
    vrf,      \* verify: position, locals and statistics of the running pass
    marker,   \* verify: how many times the _lastverified file was written
    wfail,    \* DestCache.set: per caller, the error code of its last writeFile ("" if none failed)
    ws,       \* DestCache stream writers: per caller, the chunks and what the hash stream has seen
    lsrun,    \* lsStream: the run in progress, the bucket files still to read, the entries pushed
    pst,      \* persistence: the state file, each caller's snapshot, require's cache, the second instance
    fac,      \* facade: the put or get call in progress and its result
    memo,     \* lib/memoization: key -> the entry and data kept in memory
    multi     \* content store: the last call given an integrity value with several digests

cacheVars == <<map, disk, tmp, ctx, stored>>
storeVars == <<blobs, wtmp, wctx>>
indexVars == <<buckets, log, now, found, listed>>

verifyVars == <<vrf, marker>>
failVars == <<wfail>>
\* the variables of the stream writers, of persistence, of the facade and of lsStream
moreVars == <<ws, lsrun, pst, fac, memo>>
\* the variable of the calls with several digests
lastVars == <<multi>>

vars == <<map, disk, tmp, ctx, stored, calls, blobs, wtmp, wctx, buckets, log, now, found, listed,
          vrf, marker, wfail, ws, lsrun, pst, fac, memo, multi>>

NotStored == [set |-> FALSE, bytes |-> <<>>, via |-> "none"]
StoredBy(op, b) == [set |-> TRUE, bytes |-> b, via |-> op]

CacheInit ==
    /\ map = [k \in Keys |-> NoEntry]
    /\ disk = [f \in Paths |-> NoFile]
    /\ tmp = [p \in Procs |-> NoFile]
    /\ ctx = [p \in Procs |-> IdleCtx]
    /\ stored = [k \in Keys |-> NotStored]
    /\ calls = 0

AllIdle == \A p \in Procs : ctx[p].pc = "idle"

\* has(key)
has(k) == map[k]

\* a file name is unlinked or replaced: calls that hold it open for writing
\* keep writing to the old inode
Orphaned(c, f) ==
    [p \in Procs |->
        IF c[p].pc = "set_write" /\ c[p].entry.path = f
        THEN [c[p] EXCEPT !.orphan = TRUE] ELSE c[p]]

----------------------------------------------------------------------------
(* DestCache.set *)

SetEntry(d) == Entry(hexDigest(Sri(md5(Bytes(d)))), DataLength(d), Sri(md5(Bytes(d))))

SetStart(p, k, d) ==
    /\ ctx[p].pc = "idle"
    /\ ctx' = [ctx EXCEPT ![p] = [IdleCtx EXCEPT !.pc = "set_open", !.op = "set",
                                   !.key = k, !.data = d, !.entry = SetEntry(d)]]
    /\ UNCHANGED <<map, disk, tmp, stored>>

\* writeFile(filename, data, {flag}): the open
SetOpen(p) ==
    LET c == ctx[p]
        f == c.entry.path
    IN  /\ c.pc = "set_open"
        /\ IF c.i >= 6
           THEN /\ ctx' = [ctx EXCEPT ![p].pc = "done", ![p].res = Err("Failed to write")]
                /\ UNCHANGED disk
           ELSE IF c.flag = "wx" /\ disk[f].exists
           THEN /\ ctx' = [ctx EXCEPT ![p].pc = "set_check", ![p].lastError = "EEXIST"]
                /\ UNCHANGED disk
           ELSE /\ disk' = [disk EXCEPT ![f] = File(<<>>)]
                /\ ctx' = [ctx EXCEPT ![p].pc = "set_write", ![p].orphan = FALSE]
        /\ UNCHANGED <<map, tmp, stored>>

\* writeFile: the write of the bytes and the close
SetWrite(p) ==
    LET c == ctx[p]
        f == c.entry.path
    IN  /\ c.pc = "set_write"
        /\ disk' = IF c.orphan THEN disk ELSE [disk EXCEPT ![f] = File(Bytes(c.data))]
        /\ ctx' = [ctx EXCEPT ![p].pc = "set_end", ![p].lastError = ""]
        /\ UNCHANGED <<map, tmp, stored>>

\* EEXIST: ssri.checkStream(createReadStream(filename), integrity)
SetCheck(p) ==
    LET c == ctx[p]
        f == c.entry.path
    IN  /\ c.pc = "set_check"
        /\ IF ~disk[f].exists
           THEN ctx' = [ctx EXCEPT ![p].pc = "set_open", ![p].lastError = "ENOENT",
                                   ![p].flag = "w", ![p].i = c.i + 1]
           ELSE IF checkData(disk[f].bytes, c.entry.integrity)
           THEN ctx' = [ctx EXCEPT ![p].pc = "set_end", ![p].lastError = ""]
           ELSE ctx' = [ctx EXCEPT ![p].pc = "set_open", ![p].lastError = "EINTEGRITY",
                                   ![p].flag = "w", ![p].i = c.i + 1]
        /\ UNCHANGED <<map, disk, tmp, stored>>

\* after the loop: super.set(key, entry); return entry
SetEnd(p) ==
    LET c == ctx[p]
    IN  /\ c.pc = "set_end"
        /\ map' = [map EXCEPT ![c.key] = c.entry]
        /\ stored' = [stored EXCEPT ![c.key] = StoredBy(c.op, Bytes(c.data))]
        /\ ctx' = [ctx EXCEPT ![p].pc = "done", ![p].res = Ok(<<>>, c.entry)]
        /\ UNCHANGED <<disk, tmp>>

----------------------------------------------------------------------------
(* DestCache.setStream and _moveToCacheLocation *)

\* what _getSsriCalcStream leaves in calcObj after the bytes b went through
CalcEntry(b) == Entry(hexDigest(Sri(md5(b))), Len(b), Sri(md5(b)))

SetStreamStart(p, k, d) ==
    /\ ctx[p].pc = "idle"
    /\ ctx' = [ctx EXCEPT ![p] = [IdleCtx EXCEPT !.pc = "ss_pipe", !.op = "setStream",
                                   !.key = k, !.data = d]]
    /\ UNCHANGED <<map, disk, tmp, stored>>

\* pipeline(stream, calcStream, tmpFile.stream)
SetStreamPipe(p) ==
    LET c == ctx[p]
    IN  /\ c.pc = "ss_pipe"
        /\ tmp' = [tmp EXCEPT ![p] = File(Bytes(c.data))]
        /\ ctx' = [ctx EXCEPT ![p].pc = "ss_check", ![p].entry = CalcEntry(Bytes(c.data))]
        /\ UNCHANGED <<map, disk, stored>>

\* _moveToCacheLocation: ssri.checkStream(createReadStream(filename), integrity)
MoveCheck(p) ==
    LET c == ctx[p]
        f == c.entry.path
    IN  /\ c.pc = "ss_check"
        /\ IF ~disk[f].exists
           THEN ctx' = [ctx EXCEPT ![p].pc = "ss_rename"]
           ELSE IF checkData(disk[f].bytes, c.entry.integrity)
           THEN ctx' = [ctx EXCEPT ![p].pc = "ss_unlink"]
           ELSE ctx' = [ctx EXCEPT ![p].pc = "done", ![p].res = Err("EINTEGRITY")]
        /\ UNCHANGED <<map, disk, tmp, stored>>

\* _safeUnlink(tmpFilename)
MoveUnlinkTmp(p) ==
    /\ ctx[p].pc = "ss_unlink"
    /\ tmp' = [tmp EXCEPT ![p] = NoFile]
    /\ ctx' = [ctx EXCEPT ![p].pc = "ss_rename"]
    /\ UNCHANGED <<map, disk, stored>>

\* a move that never renames the temp file to the content path
MoveRename_Skipped(p) ==
    /\ ctx[p].pc = "ss_rename"
    /\ ctx' = [ctx EXCEPT ![p].pc = "ss_end"]
    /\ UNCHANGED <<map, disk, tmp, stored>>

\* rename(tmpFilename, filename), ENOENT ignored
MoveRename(p) ==
    LET c == ctx[p]
        f == c.entry.path
    IN  /\ c.pc = "ss_rename"
        /\ IF tmp[p].exists
           THEN /\ disk' = [disk EXCEPT ![f] = tmp[p]]
                /\ tmp' = [tmp EXCEPT ![p] = NoFile]
                /\ ctx' = [Orphaned(ctx, f) EXCEPT ![p].pc = "ss_end"]
           ELSE /\ ctx' = [ctx EXCEPT ![p].pc = "ss_end"]
                /\ UNCHANGED <<disk, tmp>>
        /\ UNCHANGED <<map, stored>>

\* super.set(key, entry); return entry
MoveEnd(p) ==
    LET c == ctx[p]
    IN  /\ c.pc = "ss_end"
        /\ map' = [map EXCEPT ![c.key] = c.entry]
        /\ stored' = [stored EXCEPT ![c.key] = StoredBy(c.op, Bytes(c.data))]
        /\ ctx' = [ctx EXCEPT ![p].pc = "done", ![p].res = Ok(<<>>, c.entry)]
        /\ UNCHANGED <<disk, tmp>>

----------------------------------------------------------------------------
(* DestCache.delete *)

\* a scan that never finds another key
OtherRefers_None(m, sri) == FALSE

\* the loop over this.values(): another key refers to the same content
OtherRefers(m, sri) == \E k \in Keys : m[k].present /\ m[k].integrity = sri

\* a delete that goes on to the scan and the unlink whether the key is in
\* the map or not
DeleteStart_NoLookup(p, k) ==
    /\ ctx[p].pc = "idle"
    /\ stored' = [stored EXCEPT ![k] = NotStored]
    /\ map' = [map EXCEPT ![k] = NoEntry]
    /\ ctx' = [ctx EXCEPT ![p] = [IdleCtx EXCEPT !.pc = "del_scan", !.op = "delete",
                                   !.key = k, !.entry = map[k]]]
    /\ UNCHANGED <<disk, tmp>>

\* delete(key): super.get, super.delete; a key that is not in the map: return false
DeleteStart(p, k) ==
    /\ ctx[p].pc = "idle"
    /\ stored' = [stored EXCEPT ![k] = NotStored]
    /\ IF map[k].present
       THEN /\ map' = [map EXCEPT ![k] = NoEntry]
            /\ ctx' = [ctx EXCEPT ![p] = [IdleCtx EXCEPT !.pc = "del_scan", !.op = "delete",
                                           !.key = k, !.entry = map[k]]]
       ELSE /\ ctx' = [ctx EXCEPT ![p] = [IdleCtx EXCEPT !.pc = "done", !.op = "delete",
                                           !.key = k, !.res = Ok(<<>>, NoEntry)]]
            /\ UNCHANGED map
    /\ UNCHANGED <<disk, tmp>>

\* after _ensureCacheDirectory and persist: look for other keys
DeleteScan(p) ==
    LET c == ctx[p]
    IN  /\ c.pc = "del_scan"
        /\ IF OtherRefers(map, c.entry.integrity)
           THEN ctx' = [ctx EXCEPT ![p].pc = "done",
                           ![p].res = IF c.op = "delete" THEN Ok(<<>>, c.entry) ELSE c.res]
           ELSE ctx' = [ctx EXCEPT ![p].pc = "del_unlink"]
        /\ UNCHANGED <<map, disk, tmp, stored>>

\* _safeUnlink(entry.path)
DeleteUnlink(p) ==
    LET c == ctx[p]
        f == c.entry.path
    IN  /\ c.pc = "del_unlink"
        /\ disk' = [disk EXCEPT ![f] = NoFile]
        /\ ctx' = [Orphaned(ctx, f) EXCEPT ![p].pc = "done",
                       ![p].res = IF c.op = "delete" THEN Ok(<<>>, c.entry) ELSE c.res]
        /\ UNCHANGED <<map, tmp, stored>>

----------------------------------------------------------------------------
(* DestCache.get *)

GetStart(p, k) ==
    /\ ctx[p].pc = "idle"
    /\ IF map[k].present
       THEN ctx' = [ctx EXCEPT ![p] = [IdleCtx EXCEPT !.pc = "get_read", !.op = "get",
                                       !.key = k, !.entry = map[k]]]
       ELSE ctx' = [ctx EXCEPT ![p] = [IdleCtx EXCEPT !.pc = "done", !.op = "get",
                                       !.key = k, !.res = Ok(<<>>, NoEntry)]]
    /\ UNCHANGED <<map, disk, tmp, stored>>

\* readFile(entry.path), then ssri.checkData(data, entry.integrity)
GetRead(p) ==
    LET c == ctx[p]
        f == c.entry.path
    IN  /\ c.pc = "get_read"
        /\ IF ~disk[f].exists
           THEN /\ ctx' = [ctx EXCEPT ![p].pc = "done", ![p].res = Err("ENOENT")]
                /\ UNCHANGED <<map, stored>>
           ELSE IF checkData(disk[f].bytes, c.entry.integrity)
           THEN /\ ctx' = [ctx EXCEPT ![p].pc = "done", ![p].seen = disk[f],
                                      ![p].res = Ok(disk[f].bytes, c.entry)]
                /\ UNCHANGED <<map, stored>>
           ELSE /\ map' = [map EXCEPT ![c.key] = NoEntry]
                /\ stored' = [stored EXCEPT ![c.key] = NotStored]
                /\ ctx' = [ctx EXCEPT ![p].pc = "get_unlink", ![p].seen = disk[f]]
        /\ UNCHANGED <<disk, tmp>>

\* _safeUnlink(entry.path); throw new IntegrityError
GetUnlink(p) ==
    LET c == ctx[p]
        f == c.entry.path
    IN  /\ c.pc = "get_unlink"
        /\ disk' = [disk EXCEPT ![f] = NoFile]
        /\ ctx' = [Orphaned(ctx, f) EXCEPT ![p].pc = "done", ![p].res = Err("EINTEGRITY")]
        /\ UNCHANGED <<map, tmp, stored>>

----------------------------------------------------------------------------
(* DestCache.getStream, consumed to its end *)

GetStreamStart(p, k) ==
    /\ ctx[p].pc = "idle"
    /\ IF map[k].present
       THEN ctx' = [ctx EXCEPT ![p] = [IdleCtx EXCEPT !.pc = "gs_read", !.op = "getStream",
                                       !.key = k, !.entry = map[k]]]
       ELSE ctx' = [ctx EXCEPT ![p] = [IdleCtx EXCEPT !.pc = "done", !.op = "getStream",
                                       !.key = k, !.res = Ok(<<>>, NoEntry)]]
    /\ UNCHANGED <<map, disk, tmp, stored>>

\* createReadStream(entry.path).pipe(ssri.integrityStream({integrity, size}));
\* on EINTEGRITY / EBADSIZE the error handler calls this.delete(key), whose
\* first part (up to its first await) runs at once
GetStreamRead(p) ==
    LET c == ctx[p]
        f == c.entry.path
        e == IntegrityStreamError(disk[f].bytes, c.entry.integrity, c.entry.size)
    IN  /\ c.pc = "gs_read"
        /\ IF ~disk[f].exists
           THEN /\ ctx' = [ctx EXCEPT ![p].pc = "done", ![p].res = Err("ENOENT")]
                /\ UNCHANGED <<map, stored>>
           ELSE IF e = ""
           THEN /\ ctx' = [ctx EXCEPT ![p].pc = "done", ![p].seen = disk[f],
                                      ![p].res = Ok(disk[f].bytes, c.entry)]
                /\ UNCHANGED <<map, stored>>
           ELSE /\ stored' = [stored EXCEPT ![c.key] = NotStored]
                /\ IF map[c.key].present
                   THEN /\ map' = [map EXCEPT ![c.key] = NoEntry]
                        /\ ctx' = [ctx EXCEPT ![p].pc = "del_scan", ![p].res = Err(e),
                                              ![p].seen = disk[f], ![p].entry = map[c.key]]
                   ELSE /\ ctx' = [ctx EXCEPT ![p].pc = "done", ![p].seen = disk[f],
                                              ![p].res = Err(e)]
                        /\ UNCHANGED map
        /\ UNCHANGED <<disk, tmp>>

----------------------------------------------------------------------------
\* the caller takes the result
Return(p) ==
    /\ ctx[p].pc = "done"
    /\ ctx' = [ctx EXCEPT ![p] = IdleCtx]
    /\ tmp' = [tmp EXCEPT ![p] = NoFile]
    /\ UNCHANGED <<map, disk, stored>>

\* something outside the cache writes other bytes into a content file
Corrupt(f, b) ==
    /\ AllIdle
    /\ md5(b) # f
    /\ disk[f] # File(b)
    /\ disk' = [disk EXCEPT ![f] = File(b)]
    /\ UNCHANGED <<map, tmp, ctx, stored>>

----------------------------------------------------------------------------
(* Content store: lib/content/write.js and lib/content/read.js *)

\* JavaScript values a local can hold
JsString(n) == [t |-> "string", v |-> n]
JsObject(target) == [t |-> "object", v |-> target]
Undefined == [t |-> "undefined", v |-> 0]

\* x.target
GetTarget(x) == IF x.t = "object" THEN x.v ELSE Undefined

\* opts of write: number of algorithms, expected size, expected integrity
NoSize == 0 - 1
NoIntegrity == <<"", 0>>
WriteOpts ==
    [algorithms : {1, 2},
     size : {NoSize, 1, 2},
     integrity : {NoIntegrity, Sri512(<<97>>)}]

BlobPaths == { sha512(b) : b \in Contents }

\* contentPath(cache, sri)
contentPath(sri) == sri[2]

IdleW == [pc |-> "idle", op |-> "none", data |-> NoData, opts |-> [algorithms |-> 1,
          size |-> NoSize, integrity |-> NoIntegrity], tmp |-> Undefined,
          src |-> Undefined, sri |-> NoIntegrity, res |-> NoRes]

StoreInit ==
    /\ blobs = [f \in BlobPaths |-> NoFile]
    /\ wtmp = [p \in Procs |-> NoFile]
    /\ wctx = [p \in Procs |-> IdleW]

\* write(): the checks made before anything touches the disk; "" if they pass
WriteRejects(d, o) ==
    IF o.algorithms > 1 THEN "ERR_ALGORITHMS"
    ELSE IF o.size # NoSize /\ DataLength(d) # o.size THEN "EBADSIZE"
    ELSE IF o.integrity # NoIntegrity /\ ~checkData(Bytes(d), o.integrity) THEN "EINTEGRITY"
    ELSE ""

\* write(cache, data, opts) up to `await makeTmp`
WriteStart(p, d, o) ==
    /\ wctx[p].pc = "idle"
    /\ IF WriteRejects(d, o) # ""
       THEN wctx' = [wctx EXCEPT ![p] = [IdleW EXCEPT !.pc = "done", !.op = "write",
                         !.data = d, !.opts = o, !.res = Err(WriteRejects(d, o))]]
       ELSE wctx' = [wctx EXCEPT ![p] = [IdleW EXCEPT !.pc = "w_mktmp", !.op = "write",
                         !.data = d, !.opts = o, !.sri = Sri512(Bytes(d))]]
    /\ UNCHANGED <<blobs, wtmp>>

\* makeTmp: mkdir(tmp), return uniqueFilename(tempDirectory) -- a string
MakeTmp(p) ==
    /\ wctx[p].pc \in {"w_mktmp", "ws_mktmp"}
    /\ wctx' = [wctx EXCEPT ![p].tmp = JsString(p),
                    ![p].pc = IF wctx[p].pc = "w_mktmp" THEN "w_write" ELSE "ws_pipe"]
    /\ UNCHANGED <<blobs, wtmp>>

\* writeFile(tmp, data, {flag: 'wx'})
WriteTmp(p) ==
    /\ wctx[p].pc = "w_write"
    /\ wtmp' = [wtmp EXCEPT ![p] = File(Bytes(wctx[p].data))]
    /\ wctx' = [wctx EXCEPT ![p].pc = "w_move"]
    /\ UNCHANGED blobs

\* ssri.integrityStream({integrity, size}) of pipeToTmp at the end of input
PipeError(b, o) ==
    IF o.size # NoSize /\ Len(b) # o.size THEN "EBADSIZE"
    ELSE IF o.integrity # NoIntegrity /\ ~checkData(b, o.integrity) THEN "EINTEGRITY"
    ELSE ""

\* write.stream(cache, opts), written with the bytes of d and ended; the
\* content handling starts with the first chunk
WriteStreamStart(p, d, o) ==
    /\ wctx[p].pc = "idle"
    /\ IF Bytes(d) = <<>>
       THEN wctx' = [wctx EXCEPT ![p] = [IdleW EXCEPT !.pc = "done", !.op = "writeStream",
                         !.data = d, !.opts = o, !.res = Err("ENODATA")]]
       ELSE wctx' = [wctx EXCEPT ![p] = [IdleW EXCEPT !.pc = "ws_mktmp", !.op = "writeStream",
                         !.data = d, !.opts = o]]
    /\ UNCHANGED <<blobs, wtmp>>

\* pipeToTmp: pipe(inputStream, integrityStream, createWriteStream(tmpTarget))
PipeToTmp(p) ==
    LET c == wctx[p]
        e == PipeError(Bytes(c.data), c.opts)
    IN  /\ c.pc = "ws_pipe"
        /\ wtmp' = [wtmp EXCEPT ![p] = File(Bytes(c.data))]
        /\ IF e # ""
           THEN wctx' = [wctx EXCEPT ![p].pc = "ws_rimraf", ![p].res = Err(e)]
           ELSE wctx' = [wctx EXCEPT ![p].pc = "w_move", ![p].sri = Sri512(Bytes(c.data))]
        /\ UNCHANGED blobs

\* pipeToTmp, catch: rimraf(tmpTarget); throw err
PipeCleanup(p) ==
    /\ wctx[p].pc = "ws_rimraf"
    /\ wtmp' = [wtmp EXCEPT ![p] = NoFile]
    /\ wctx' = [wctx EXCEPT ![p].pc = "done"]
    /\ UNCHANGED blobs

\* moveFile(src, dest) of lib/util/move-file: the temp file is renamed to its
\* content path; a valid file already there is kept and the temp file
\* discarded, an invalid one is replaced.  A source that is not a path is
\* refused before anything is touched.
moveFile(src, dest, sri, store, tmps) ==
    IF src.t # "string"
    THEN [err |-> "ERR_INVALID_ARG_TYPE", blobs |-> store, wtmp |-> tmps]
    ELSE IF store[dest].exists /\ checkData(store[dest].bytes, sri)
    THEN [err |-> "", blobs |-> store, wtmp |-> [tmps EXCEPT ![src.v] = NoFile]]
    ELSE [err |-> "", blobs |-> [store EXCEPT ![dest] = tmps[src.v]],
          wtmp |-> [tmps EXCEPT ![src.v] = NoFile]]

\* the source that moveToDestination hands to moveFile
MoveSource(tmpLocal) == GetTarget(tmpLocal)

\* moveToDestination(tmp, cache, sri): mkdir(destDir); moveFile(tmp.target, destination)
MoveToDestination(p) ==
    LET c == wctx[p]
        m == moveFile(MoveSource(c.tmp), contentPath(c.sri), c.sri, blobs, wtmp)
    IN  /\ c.pc = "w_move"
        /\ blobs' = m.blobs
        /\ wtmp' = m.wtmp
        /\ wctx' = [wctx EXCEPT ![p].pc = "done", ![p].src = MoveSource(c.tmp),
                        ![p].res = IF m.err # "" THEN Err(m.err)
                                   ELSE Ok(<<>>, Entry(contentPath(c.sri), Len(Bytes(c.data)), c.sri))]

\* read(cache, integrity, opts) for an integrity value with one digest
read(store, sri, size) ==
    LET f == contentPath(sri)
    IN  IF ~store[f].exists THEN Err("ENOENT")
        ELSE IF size # NoSize /\ size # Len(store[f].bytes) THEN Err("EBADSIZE")
        ELSE IF checkData(store[f].bytes, sri) THEN Ok(store[f].bytes, NoEntry)
        ELSE Err("EINTEGRITY")

\* a caller runs read(cache, integrity, {size})
ReadBlob(p, sri, size) ==
    /\ wctx[p].pc = "idle"
    /\ wctx' = [wctx EXCEPT ![p] = [IdleW EXCEPT !.pc = "done", !.op = "read", !.sri = sri,
           !.opts = [algorithms |-> 1, size |-> size, integrity |-> NoIntegrity],
           !.res = read(blobs, sri, size)]]
    /\ UNCHANGED <<blobs, wtmp>>

\* the caller takes the result
WriteReturn(p) ==
    /\ wctx[p].pc = "done"
    /\ wctx' = [wctx EXCEPT ![p] = IdleW]
    /\ wtmp' = [wtmp EXCEPT ![p] = NoFile]
    /\ UNCHANGED blobs

----------------------------------------------------------------------------
(* Key index: lib/entry-index.js *)

\* sha256 of the key picks the bucket file; several keys can share a bucket
hashKey(k) == (k + 1) \div 2

\* bucketPath(cache, key)
bucketPath(k) == hashKey(k)

Buckets == { bucketPath(k) : k \in Keys }

\* A bucket file is a text.  The text is modelled as a sequence of tokens:
\* newline, tab, a checksum in hex, and the pieces of a JSON object.
NL == [t |-> "nl", v |-> 0]
TAB == [t |-> "tab", v |-> 0]
LB == [t |-> "{", v |-> 0]
RB == [t |-> "}", v |-> 0]
Hex(h) == [t |-> "hex", v |-> h]
Field(name, v) == [t |-> name, v |-> v]

FieldNames == {"key", "integrity", "time", "size", "metadata"}

\* values of an entry object: null and undefined
Null == 0
Undef == 0 - 1

\* ssri.stringify(integrity) and ssri.parse of that string
AlgoCode(a) == IF a = "sha512" THEN 1 ELSE 2
stringify(sri) == sri[2] * 10 + AlgoCode(sri[1])
parse(str) == <<IF str % 10 = 1 THEN "sha512" ELSE "md5", str \div 10>>

IndexEntry(k, i, t, sz, m) == [key |-> k, integrity |-> i, time |-> t, size |-> sz, metadata |-> m]

\* JSON.stringify(entry): undefined properties are left out
JsonStringify(e) ==
    <<LB, Field("key", e.key), Field("integrity", e.integrity), Field("time", e.time)>>
    \o (IF e.size = Undef THEN <<>> ELSE <<Field("size", e.size)>>)
    \o (IF e.metadata = Undef THEN <<>> ELSE <<Field("metadata", e.metadata)>>)
    \o <<RB>>

RECURSIVE LastField(_, _)
LastField(toks, name) ==
    IF toks = <<>> THEN Undef
    ELSE IF toks[Len(toks)].t = name THEN toks[Len(toks)].v
    ELSE LastField(SubSeq(toks, 1, Len(toks) - 1), name)

\* JSON.parse(text) succeeds
JsonValid(toks) ==
    /\ Len(toks) >= 2
    /\ toks[1] = LB
    /\ toks[Len(toks)] = RB
    /\ \A i \in 2..(Len(toks) - 1) : toks[i].t \in FieldNames

\* JSON.parse(text) of a valid text
JsonParse(toks) ==
    IndexEntry(LastField(toks, "key"), LastField(toks, "integrity"), LastField(toks, "time"),
               LastField(toks, "size"), LastField(toks, "metadata"))

TokCode(tok) ==
    tok.v * 10 + (CASE tok.t = "nl" -> 0 [] tok.t = "tab" -> 1 [] tok.t = "{" -> 2
                    [] tok.t = "}" -> 3 [] tok.t = "hex" -> 4 [] tok.t = "key" -> 5
                    [] tok.t = "integrity" -> 6 [] tok.t = "time" -> 7
                    [] tok.t = "size" -> 8 [] OTHER -> 9)

RECURSIVE HashText(_, _)
HashText(h, toks) ==
    IF toks = <<>> THEN h
    ELSE HashText((h * 131 + TokCode(Head(toks)) + 1) % 999983, Tail(toks))

\* hashEntry(str): sha1 of the text, in hex
hashEntry(toks) == HashText(0, toks)

\* str.split(sep)
RECURSIVE Split(_, _, _)
Split(toks, sep, cur) ==
    IF toks = <<>> THEN <<cur>>
    ELSE IF Head(toks) = sep THEN <<cur>> \o Split(Tail(toks), sep, <<>>)
    ELSE Split(Tail(toks), sep, Append(cur, Head(toks)))

\* a parse that does not compare the checksum with the text
LineValid_NoChecksum(line) ==
    LET pieces == Split(line, TAB, <<>>)
    IN  /\ line # <<>>
        /\ Len(pieces) >= 2
        /\ pieces[2] # <<>>
        /\ JsonValid(pieces[2])

\* the body of the forEach of _bucketEntries: the line yields an entry
LineValid(line) ==
    LET pieces == Split(line, TAB, <<>>)
    IN  /\ line # <<>>
        /\ Len(pieces) >= 2
        /\ pieces[2] # <<>>
        /\ pieces[1] = <<Hex(hashEntry(pieces[2]))>>
        /\ JsonValid(pieces[2])

LineEntry(line) == JsonParse(Split(line, TAB, <<>>)[2])

RECURSIVE EntriesOf(_)
EntriesOf(lines) ==
    IF lines = <<>> THEN <<>>
    ELSE (IF LineValid(Head(lines)) THEN <<LineEntry(Head(lines))>> ELSE <<>>)
         \o EntriesOf(Tail(lines))

\* _bucketEntries(data)
bucketEntries(text) == EntriesOf(Split(text, NL, <<>>))

NoFormatted == [present |-> FALSE, key |-> Undef, integrity |-> Null, path |-> 0,
                size |-> Undef, time |-> Undef, metadata |-> Undef]

\* a formatEntry that does not turn a tombstone into null
formatEntry_KeepTombstone(e) ==
    [present |-> TRUE, key |-> e.key, integrity |-> e.integrity, path |-> 0,
     size |-> e.size, time |-> e.time, metadata |-> e.metadata]

\* formatEntry(cache, entry): null for a tombstone
formatEntry(e) ==
    IF e.integrity = Null \/ e.integrity = Undef THEN NoFormatted
    ELSE [present |-> TRUE, key |-> e.key, integrity |-> e.integrity,
          path |-> contentPath(parse(e.integrity)),
          size |-> e.size, time |-> e.time, metadata |-> e.metadata]

\* the reduce of find: the later matching entry replaces the earlier result
RECURSIVE FindReduce(_, _, _)
FindReduce(entries, key, latest) ==
    IF entries = <<>> THEN latest
    ELSE FindReduce(Tail(entries), key,
                    IF Head(entries).key = key THEN formatEntry(Head(entries)) ELSE latest)

\* find(cache, key): a missing bucket file gives null
find(bs, key) ==
    IF ~bs[bucketPath(key)].exists THEN NoFormatted
    ELSE FindReduce(bucketEntries(bs[bucketPath(key)].bytes), key, NoFormatted)

NoFound == [done |-> FALSE, key |-> 1, res |-> NoFormatted]

\* the reduce of BucketStream._transform: keyToEntry.get(key) at the end
RECURSIVE KeyToEntry(_, _, _)
KeyToEntry(entries, key, acc) ==
    IF entries = <<>> THEN acc
    ELSE KeyToEntry(Tail(entries), key,
                    IF Head(entries).key = key THEN <<Head(entries)>> ELSE acc)

\* a stream that keeps the first entry of a key instead of the last
Pushed_First(bs, b, key) ==
    IF ~bs[b].exists THEN NoFormatted
    ELSE LET own == SelectSeq(bucketEntries(bs[b].bytes), LAMBDA e : e.key = key)
         IN  IF own = <<>> THEN NoFormatted ELSE formatEntry(own[1])

\* BucketStream._transform(bucket): what the stream pushes for a key, if anything
Pushed(bs, b, key) ==
    IF ~bs[b].exists THEN NoFormatted
    ELSE LET last == KeyToEntry(bucketEntries(bs[b].bytes), key, <<>>)
         IN  IF last = <<>> THEN NoFormatted ELSE formatEntry(last[1])

\* ls(cache): res[entry.key] = entry for every entry of lsStream; the bucket
\* files come in the order of the directory walk
ls(bs) ==
    [k \in Keys |->
        LET from == { b \in Buckets : Pushed(bs, b, k).present }
        IN  IF from = {} THEN NoFormatted
            ELSE Pushed(bs, CHOOSE b \in from : \A c \in from : c <= b, k)]

NoListed == [done |-> FALSE, res |-> [k \in Keys |-> NoFormatted]]

IndexInit ==
    /\ buckets = [b \in Buckets |-> NoFile]
    /\ log = [b \in Buckets |-> <<>>]
    /\ now = 0
    /\ found = NoFound
    /\ listed = NoListed

\* number of lines appended to the bucket files so far
RECURSIVE LinesIn(_)
LinesIn(bs) ==
    IF bs = {} THEN 0
    ELSE LET b == CHOOSE x \in bs : TRUE
         IN  Len(SelectSeq(buckets[b].bytes, LAMBDA tok : tok = NL)) + LinesIn(bs \ {b})

Appended == LinesIn(Buckets)

\* where an interrupted append can stop: after the checksum, and inside the
\* JSON text
CrashPoints == {2, 5}

\* the text insert appends for an entry
LineText(e) == <<NL, Hex(hashEntry(JsonStringify(e))), TAB>> \o JsonStringify(e)

\* what insert can be given as integrity, size and metadata
IndexSris == { stringify(Sri512(<<97>>)), stringify(Sri512(<<98>>)) }
IndexSizes == {1}
IndexMetadata == {5}

\* an insert that writes the bucket file anew instead of appending to it
Insert_Overwrite(k, i, sz, m) ==
    LET b == bucketPath(k)
        e == IndexEntry(k, i, now, sz, m)
    IN  /\ Appended < MaxLines
        /\ buckets' = [buckets EXCEPT ![b] = File(LineText(e))]
        /\ log' = [log EXCEPT ![b] = Append(log[b], e)]
        /\ found' = NoFound
        /\ listed' = NoListed
        /\ now' = now + 1

\* insert(cache, key, integrity, opts): appendFile(bucket, line)
Insert(k, i, sz, m) ==
    LET b == bucketPath(k)
        e == IndexEntry(k, i, now, sz, m)
    IN  /\ Appended < MaxLines
        /\ buckets' = [buckets EXCEPT ![b] = File(buckets[b].bytes \o LineText(e))]
        /\ log' = [log EXCEPT ![b] = Append(log[b], e)]
        /\ found' = NoFound
        /\ listed' = NoListed
        /\ now' = now + 1

\* index.delete(cache, key): insert(cache, key, null, opts) without size and metadata
Del(k) == Insert(k, Null, Undef, Undef)

\* an append to bucket b that stops after its first n tokens (the process dies)
CrashedAppend(b, n) ==
    LET k == CHOOSE key \in Keys : bucketPath(key) = b
        e == IndexEntry(k, stringify(Sri512(<<97>>)), now, 1, 5)
    IN  /\ Appended < MaxLines
        /\ n \in 1..(Len(LineText(e)) - 1)
        /\ buckets' = [buckets EXCEPT ![b] = File(buckets[b].bytes \o SubSeq(LineText(e), 1, n))]
        /\ found' = NoFound
        /\ listed' = NoListed
        /\ UNCHANGED <<log, now>>

\* a caller runs find(cache, key)
Find(k) ==
    /\ found' = [done |-> TRUE, key |-> k, res |-> find(buckets, k)]
    /\ listed' = NoListed
    /\ UNCHANGED <<buckets, log, now>>

\* a caller runs ls(cache)
Ls ==
    /\ listed' = [done |-> TRUE, res |-> ls(buckets)]
    /\ found' = NoFound
    /\ UNCHANGED <<buckets, log, now>>

\* number of completed appends
RECURSIVE LogLen(_)
LogLen(bs) ==
    IF bs = {} THEN 0
    ELSE LET b == CHOOSE x \in bs : TRUE IN Len(log[b]) + LogLen(bs \ {b})

\* every line of every bucket is intact, and the last line of bucket b is the
\* line of the last completed append
LastLineComplete(b) ==
    /\ log[b] # <<>>
    /\ Appended = LogLen(Buckets)
    /\ LET line == LineText(log[b][Len(log[b])])
           text == buckets[b].bytes
       IN  /\ Len(text) >= Len(line)
           /\ SubSeq(text, Len(text) - Len(line) + 1, Len(text)) = line

\* where in a line (counted from its end) damage can hit, and what a hit
\* token turns into
DamagePoints == {1}
Altered(tok) == IF tok.t \in {"tab", "{", "}"} THEN Hex(0) ELSE [tok EXCEPT !.v = tok.v + 1]

\* the end of bucket b is cut off inside its last line (a crash while the
\* line was on its way to the disk, a truncation from outside)
TruncateLine(b, n) ==
    /\ LastLineComplete(b)
    /\ buckets' = [buckets EXCEPT ![b] =
                      File(SubSeq(buckets[b].bytes, 1, Len(buckets[b].bytes) - 1 - n))]
    /\ log' = [log EXCEPT ![b] = SubSeq(log[b], 1, Len(log[b]) - 1)]
    /\ found' = NoFound
    /\ listed' = NoListed
    /\ UNCHANGED now

\* one token of the last line of bucket b is overwritten
AlterLine(b, n) ==
    LET at == Len(buckets[b].bytes) - n
    IN  /\ LastLineComplete(b)
        /\ buckets' = [buckets EXCEPT ![b] =
                          File([buckets[b].bytes EXCEPT ![at] = Altered(buckets[b].bytes[at])])]
        /\ log' = [log EXCEPT ![b] = SubSeq(log[b], 1, Len(log[b]) - 1)]
        /\ found' = NoFound
        /\ listed' = NoListed
        /\ UNCHANGED now

----------------------------------------------------------------------------
(* Verifier: lib/verify.js *)

\* opts.filter: none, or a predicate that refuses the entries of key 1
Filters == {"none", "notKey1"}
Accepts(flt, e) == flt = "none" \/ e.key # 1

NoStats == [verifiedContent |-> 0, reclaimedCount |-> 0, badContentCount |-> 0,
            missingContent |-> 0, rejectedEntries |-> 0, totalEntries |-> 0]

\* a bucket rebuild that was never queued
NoTask == [state |-> "none", todo |-> <<>>]

IdleV == [pc |-> "idle", filter |-> "none", live |-> {}, files |-> <<>>, stats |-> NoStats,
          tasks |-> [b \in Buckets |-> NoTask], res |-> "none",
          blobs0 |-> [f \in BlobPaths |-> NoFile],
          ls0 |-> [k \in Keys |-> NoFormatted],
          ls1 |-> [k \in Keys |-> NoFormatted],
          log0 |-> [b \in Buckets |-> <<>>]]

VerifyInit ==
    /\ vrf = IdleV
    /\ marker = 0

\* the elements of a set of numbers in rising order
RECURSIVE Sorted(_)
Sorted(S) ==
    IF S = {} THEN <<>>
    ELSE LET m == CHOOSE x \in S : \A y \in S : x <= y IN <<m>> \o Sorted(S \ {m})

\* ssri.fromHex(digest, algo).toString() for the file of a blob
PathIntegrity(f) == stringify(<<"sha512", f>>)

\* verify(cache, opts): the loop over the steps starts
VerifyStart(flt) ==
    /\ vrf.pc = "idle"
    /\ vrf' = [IdleV EXCEPT !.pc = "fixPerms", !.filter = flt]
    /\ UNCHANGED <<blobs, wtmp, wctx, indexVars, marker>>

\* fixPerms: ownership only
FixPerms ==
    /\ vrf.pc = "fixPerms"
    /\ vrf' = [vrf EXCEPT !.pc = "mark"]
    /\ UNCHANGED <<blobs, wtmp, wctx, indexVars, marker>>

\* the entries of an ls result that the filter accepts
Accepted(flt, entries) == { k \in Keys : entries[k].present /\ Accepts(flt, entries[k]) }

\* garbageCollect: the live set from lsStream, then the walk of the content
\* directory begins
GarbageCollectMark ==
    /\ vrf.pc = "mark"
    /\ vrf' = [vrf EXCEPT !.pc = "sweep",
                  !.live = { ls(buckets)[k].integrity : k \in Accepted(vrf.filter, ls(buckets)) },
                  !.files = Sorted({ f \in BlobPaths : blobs[f].exists }),
                  !.blobs0 = blobs,
                  !.ls0 = ls(buckets),
                  !.log0 = log]
    /\ UNCHANGED <<blobs, wtmp, wctx, indexVars, marker>>

\* the file the walk is at is live
AtLive == vrf.files # <<>> /\ PathIntegrity(Head(vrf.files)) \in vrf.live

\* a garbageCollect that does not count bad content
Verified_NoBad(v, valid) ==
    [v EXCEPT !.pc = "sweep", !.files = Tail(v.files),
              !.stats = IF valid
                        THEN [v.stats EXCEPT !.verifiedContent = @ + 1]
                        ELSE [v.stats EXCEPT !.reclaimedCount = @ + 1]]

\* garbageCollect takes the result of verifyContent: info.valid or not
Verified(v, valid) ==
    [v EXCEPT !.pc = "sweep", !.files = Tail(v.files),
              !.stats = IF valid
                        THEN [v.stats EXCEPT !.verifiedContent = @ + 1]
                        ELSE [v.stats EXCEPT !.reclaimedCount = @ + 1,
                                             !.badContentCount = @ + 1]]

\* verifyContent: stat(filepath)
VerifyContentStat ==
    /\ vrf.pc = "sweep" /\ AtLive
    /\ vrf' = IF blobs[Head(vrf.files)].exists
              THEN [vrf EXCEPT !.pc = "vc_check"]
              ELSE Verified(vrf, FALSE)
    /\ UNCHANGED <<blobs, wtmp, wctx, indexVars, marker>>

\* verifyContent: ssri.checkStream(createReadStream(filepath), sri)
VerifyContentCheck ==
    LET f == Head(vrf.files)
    IN  /\ vrf.pc = "vc_check"
        /\ vrf' = IF ~blobs[f].exists THEN Verified(vrf, FALSE)
                  ELSE IF checkData(blobs[f].bytes, <<"sha512", f>>) THEN Verified(vrf, TRUE)
                  ELSE [vrf EXCEPT !.pc = "vc_unlink"]
        /\ UNCHANGED <<blobs, wtmp, wctx, indexVars, marker>>

\* a verifyContent that reports the bad content and leaves the file
VerifyContentUnlink_Keep ==
    /\ vrf.pc = "vc_unlink"
    /\ vrf' = Verified(vrf, FALSE)
    /\ UNCHANGED <<blobs, wtmp, wctx, indexVars, marker>>

\* verifyContent: unlink(filepath) after EINTEGRITY
VerifyContentUnlink ==
    LET f == Head(vrf.files)
    IN  /\ vrf.pc = "vc_unlink"
        /\ blobs' = [blobs EXCEPT ![f] = NoFile]
        /\ vrf' = Verified(vrf, FALSE)
        /\ UNCHANGED <<wtmp, wctx, indexVars, marker>>

\* garbageCollect, content that is not live: reclaimedCount++, stat(f)
OrphanStat ==
    /\ vrf.pc = "sweep" /\ vrf.files # <<>> /\ ~AtLive
    /\ vrf' = IF blobs[Head(vrf.files)].exists
              THEN [vrf EXCEPT !.pc = "or_rimraf", !.stats.reclaimedCount = @ + 1]
              ELSE [vrf EXCEPT !.pc = "done", !.stats.reclaimedCount = @ + 1,
                               !.res = "ENOENT"]
    /\ UNCHANGED <<blobs, wtmp, wctx, indexVars, marker>>

\* garbageCollect, content that is not live: rimraf(f)
OrphanRimraf ==
    /\ vrf.pc = "or_rimraf"
    /\ blobs' = [blobs EXCEPT ![Head(vrf.files)] = NoFile]
    /\ vrf' = [vrf EXCEPT !.pc = "sweep", !.files = Tail(vrf.files)]
    /\ UNCHANGED <<wtmp, wctx, indexVars, marker>>

\* garbageCollect returns its statistics
GarbageCollectReturn ==
    /\ vrf.pc = "sweep" /\ vrf.files = <<>>
    /\ vrf' = [vrf EXCEPT !.pc = "rebuild"]
    /\ UNCHANGED <<blobs, wtmp, wctx, indexVars, marker>>

\* the keys of bucket b among the keys ks, in rising order
RECURSIVE KeysOf(_, _)
KeysOf(b, ks) ==
    IF ks = <<>> THEN <<>>
    ELSE (IF bucketPath(Head(ks)) = b THEN <<Head(ks)>> ELSE <<>>) \o KeysOf(b, Tail(ks))

\* rebuildIndex, the loop over the entries: buckets[hashed] for bucket b
Grouped(flt, entries, b) ==
    LET ks == KeysOf(b, Sorted(Accepted(flt, entries)))
    IN  [i \in 1..Len(ks) |-> entries[ks[i]]]

\* what a bucket rebuild does next
Rest(todo) == IF todo = <<>> THEN "done" ELSE "stat"

\* a rebuild that takes the first entry of each key instead of the current one
RebuildIndexStart_FirstEntries ==
    LET entries == [k \in Keys |-> Pushed_First(buckets, bucketPath(k), k)]
        excluded == { k \in Keys : entries[k].present /\ ~Accepts(vrf.filter, entries[k]) }
    IN  /\ vrf.pc = "rebuild"
        /\ vrf' = [vrf EXCEPT !.pc = "onEmpty",
                      !.ls1 = entries,
                      !.stats.rejectedEntries = @ + Cardinality(excluded),
                      !.tasks = [b \in Buckets |->
                                   IF \E k \in Keys : entries[k].present /\ bucketPath(k) = b
                                   THEN [state |-> "trunc",
                                         todo |-> Grouped(vrf.filter, entries, b)]
                                   ELSE NoTask]]
        /\ UNCHANGED <<blobs, wtmp, wctx, indexVars, marker>>

\* rebuildIndex up to queue.onEmpty(): index.ls, the grouping by bucket, and
\* queue.add for every bucket that holds an entry; the queue runs up to
\* opts.concurrency (20) tasks at once, so every task starts at once and
\* asks for its truncate
RebuildIndexStart ==
    LET entries == ls(buckets)
        excluded == { k \in Keys : entries[k].present /\ ~Accepts(vrf.filter, entries[k]) }
    IN  /\ vrf.pc = "rebuild"
        /\ vrf' = [vrf EXCEPT !.pc = "onEmpty",
                      !.ls1 = entries,
                      !.stats.rejectedEntries = @ + Cardinality(excluded),
                      !.tasks = [b \in Buckets |->
                                   IF \E k \in Keys : entries[k].present /\ bucketPath(k) = b
                                   THEN [state |-> "trunc",
                                         todo |-> Grouped(vrf.filter, entries, b)]
                                   ELSE NoTask]]
        /\ UNCHANGED <<blobs, wtmp, wctx, indexVars, marker>>

\* rebuildBucket: truncate(bucket._path)
RebuildBucketTruncate(b) ==
    /\ vrf.tasks[b].state = "trunc"
    /\ buckets' = [buckets EXCEPT ![b] = File(<<>>)]
    /\ log' = [log EXCEPT ![b] = <<>>]
    /\ found' = NoFound
    /\ listed' = NoListed
    /\ vrf' = [vrf EXCEPT !.tasks[b].state = Rest(vrf.tasks[b].todo)]
    /\ UNCHANGED <<blobs, wtmp, wctx, now, marker>>

\* a rebuildBucket that inserts every entry without a look at its content
RebuildBucketStat_NoStat(b) ==
    /\ vrf.tasks[b].state = "stat"
    /\ vrf' = [vrf EXCEPT !.tasks[b].state = "insert"]
    /\ UNCHANGED <<blobs, wtmp, wctx, indexVars, marker>>

\* rebuildBucket: stat(content) of the entry at hand; ENOENT drops the entry
RebuildBucketStat(b) ==
    LET t == vrf.tasks[b]
        entry == Head(t.todo)
    IN  /\ t.state = "stat"
        /\ vrf' = IF blobs[contentPath(parse(entry.integrity))].exists
                  THEN [vrf EXCEPT !.tasks[b].state = "insert"]
                  ELSE [vrf EXCEPT !.tasks[b] = [state |-> Rest(Tail(t.todo)),
                                                 todo |-> Tail(t.todo)],
                                   !.stats.rejectedEntries = @ + 1,
                                   !.stats.missingContent = @ + 1]
        /\ UNCHANGED <<blobs, wtmp, wctx, indexVars, marker>>

\* rebuildBucket: index.insert of the entry at hand, totalEntries++
RebuildBucketInsert(b) ==
    LET t == vrf.tasks[b]
        entry == Head(t.todo)
        e == IndexEntry(entry.key, entry.integrity, now, entry.size, entry.metadata)
    IN  /\ t.state = "insert"
        /\ buckets' = [buckets EXCEPT ![b] = File(buckets[b].bytes \o LineText(e))]
        /\ log' = [log EXCEPT ![b] = Append(log[b], e)]
        /\ found' = NoFound
        /\ listed' = NoListed
        /\ now' = now + 1
        /\ vrf' = [vrf EXCEPT !.tasks[b] = [state |-> Rest(Tail(t.todo)), todo |-> Tail(t.todo)],
                              !.stats.totalEntries = @ + 1]
        /\ UNCHANGED <<blobs, wtmp, wctx, marker>>

\* rebuildBucket: stat or insert fails with an error that is not ENOENT and
\* the task rejects; nothing holds the promise queue.add returned
RebuildBucketFail(b) ==
    /\ vrf.tasks[b].state \in {"stat", "insert"}
    /\ vrf' = [vrf EXCEPT !.tasks[b].state = "failed"]
    /\ UNCHANGED <<blobs, wtmp, wctx, indexVars, marker>>

\* queue.onEmpty() resolves: no task waits in the queue; rebuildIndex returns
RebuildIndexReturn ==
    /\ vrf.pc = "onEmpty"
    /\ vrf' = [vrf EXCEPT !.pc = "cleanTmp"]
    /\ UNCHANGED <<blobs, wtmp, wctx, indexVars, marker>>

\* cleanTmp: rimraf(cache/tmp)
CleanTmp ==
    /\ vrf.pc = "cleanTmp"
    /\ wtmp' = [p \in Procs |-> NoFile]
    /\ vrf' = [vrf EXCEPT !.pc = "writeVerifile"]
    /\ UNCHANGED <<blobs, wctx, indexVars, marker>>

\* writeVerifile: writeFile(cache/_lastverified, the time)
WriteVerifile ==
    /\ vrf.pc = "writeVerifile"
    /\ marker' = marker + 1
    /\ vrf' = [vrf EXCEPT !.pc = "return"]
    /\ UNCHANGED <<blobs, wtmp, wctx, indexVars>>

\* verify returns stats
VerifyReturn ==
    /\ vrf.pc = "return"
    /\ vrf' = [vrf EXCEPT !.pc = "done", !.res = "ok"]
    /\ UNCHANGED <<blobs, wtmp, wctx, indexVars, marker>>

\* the cache as verify finds it: a file in the content directory under the
\* digest f with the bytes b
PlaceBlob(f, b) ==
    /\ vrf.pc = "idle"
    /\ ~blobs[f].exists
    /\ blobs' = [blobs EXCEPT ![f] = File(b)]
    /\ UNCHANGED <<wtmp, wctx, indexVars, verifyVars>>

\* another process removes the blob file f (its own verify, rm.content)
ExternalUnlink(f) ==
    /\ blobs[f].exists
    /\ blobs' = [blobs EXCEPT ![f] = NoFile]
    /\ UNCHANGED <<wtmp, wctx, indexVars, verifyVars>>

----------------------------------------------------------------------------
(* DestCache: filesystem calls and streams that fail *)

\* error codes writeFile can fail with besides EEXIST
WriteFileErrors == {"EMFILE", "ENOENT", "EACCES"}

\* the error the input stream or the hashing stream of setStream raises
StreamErrors == {"Byaka"}

FailInit == wfail = [p \in Procs |-> ""]

\* set, the catch of the loop for a writeFile that fails with the code e:
\* lastError = e; EMFILE sets writeFlag = 'w' and sleeps; then the next round
SetOpenFail(p, e) ==
    LET c == ctx[p]
    IN  /\ c.pc = "set_open"
        /\ c.i < 6
        /\ ctx' = [ctx EXCEPT ![p].lastError = e, ![p].i = c.i + 1,
                              ![p].flag = IF e = "EMFILE" THEN "w" ELSE c.flag]
        /\ wfail' = [wfail EXCEPT ![p] = e]
        /\ UNCHANGED <<map, disk, tmp, stored>>

\* the payloads of the calls whose filesystem calls fail
FailInputs == { Buf(<<97>>), Str(<<233>>) }

\* the prefixes of the bytes b that are shorter than b
Prefixes(b) == { SubSeq(b, 1, n) : n \in 0..(Len(b) - 1) }

\* a setStream that drops the key when its pipeline fails
SetStreamPipeFail_DropsKey(p, e, made) ==
    LET c == ctx[p]
    IN  /\ c.pc = "ss_pipe"
        /\ tmp' = [tmp EXCEPT ![p] = NoFile]
        /\ map' = [map EXCEPT ![c.key] = NoEntry]
        /\ ctx' = [ctx EXCEPT ![p].pc = "done", ![p].res = Err(e)]
        /\ UNCHANGED <<disk, stored, wfail>>

\* setStream: pipeline(stream, calcStream, tmpFile.stream) rejects with the
\* error e of one of its streams; the temp file, opened with 'wx', holds what
\* was written before, or was not created yet (made = FALSE)
SetStreamPipeFail(p, e, made) ==
    LET c == ctx[p]
    IN  /\ c.pc = "ss_pipe"
        /\ \E b \in Prefixes(Bytes(c.data)) :
              tmp' = [tmp EXCEPT ![p] = IF made THEN File(b) ELSE NoFile]
        /\ ctx' = [ctx EXCEPT ![p].pc = "done", ![p].res = Err(e)]
        /\ UNCHANGED <<map, disk, stored, wfail>>

----------------------------------------------------------------------------
(* DestCache.getWriteStream and DestCache.createCachingStream *)

\* what is written to a stream writer, chunk by chunk
ChunkInputs == { <<<<97>>>>, <<<<98>>>>, <<<<195, 169>>>>, <<<<195>>, <<169>>>> }

WriterOps == {"getWriteStream", "createCachingStream"}

RECURSIVE Concat(_)
Concat(chunks) == IF chunks = <<>> THEN <<>> ELSE Head(chunks) \o Concat(Tail(chunks))

\* no writer: nothing to write, the hash stream at its start
NoWriter == [input |-> <<>>, todo |-> <<>>, hash |-> md5(<<>>), size |-> 0, out |-> <<>>]

StreamInit == ws = [p \in Procs |-> NoWriter]

\* getWriteStream(key) / createCachingStream(key): _getTmpFileWriteStream and
\* _getSsriCalcStream; the chunks are what the caller will write
WriterStart(p, k, op, chunks) ==
    /\ ctx[p].pc = "idle"
    /\ ctx' = [ctx EXCEPT ![p] = [IdleCtx EXCEPT !.pc = "ws_write", !.op = op, !.key = k,
                                   !.data = Buf(Concat(chunks))]]
    /\ tmp' = [tmp EXCEPT ![p] = File(<<>>)]
    /\ ws' = [ws EXCEPT ![p] = [NoWriter EXCEPT !.input = chunks, !.todo = chunks]]
    /\ UNCHANGED <<map, disk, stored>>

\* a writer whose hash stream counts chunks
WriterWrite_CountsChunks(p) ==
    LET w == ws[p]
        chunk == Head(w.todo)
    IN  /\ ctx[p].pc = "ws_write"
        /\ w.todo # <<>>
        /\ tmp' = [tmp EXCEPT ![p] = File(tmp[p].bytes \o chunk)]
        /\ ws' = [ws EXCEPT ![p] = [w EXCEPT !.todo = Tail(w.todo),
                                             !.hash = HashFrom(w.hash, chunk),
                                             !.size = w.size + 1]]
        /\ UNCHANGED <<map, disk, ctx, stored>>

\* write / transform: calcStream.write(chunk), tmpFile.stream.write(chunk),
\* and for the caching stream cb(error, chunk)
WriterWrite(p) ==
    LET w == ws[p]
        chunk == Head(w.todo)
    IN  /\ ctx[p].pc = "ws_write"
        /\ w.todo # <<>>
        /\ tmp' = [tmp EXCEPT ![p] = File(tmp[p].bytes \o chunk)]
        /\ ws' = [ws EXCEPT ![p] = [w EXCEPT !.todo = Tail(w.todo),
                                             !.hash = HashFrom(w.hash, chunk),
                                             !.size = w.size + Len(chunk),
                                             !.out = IF ctx[p].op = "createCachingStream"
                                                     THEN Append(w.out, chunk) ELSE w.out]]
        /\ UNCHANGED <<map, disk, ctx, stored>>

\* final: calcStream.emit('end') gives calcObj its size and integrity,
\* tmpFile.stream.end, then mover()
WriterFinal(p) ==
    LET w == ws[p]
    IN  /\ ctx[p].pc = "ws_write"
        /\ w.todo = <<>>
        /\ ctx' = [ctx EXCEPT ![p].pc = "ss_check",
                              ![p].entry = Entry(hexDigest(Sri(w.hash)), w.size, Sri(w.hash))]
        /\ UNCHANGED <<map, disk, tmp, stored, ws>>

----------------------------------------------------------------------------
(* lsStream, bucket file by bucket file *)

NoLsRun == [pc |-> "idle", files |-> <<>>, res |-> [k \in Keys |-> NoFormatted]]

LsInit == lsrun = NoLsRun

\* lsStream(cache): glob.stream enumerates the bucket files that exist now
LsStreamStart ==
    /\ lsrun.pc \in {"idle", "ended"}
    /\ lsrun' = [NoLsRun EXCEPT !.pc = "flowing",
                                !.files = Sorted({ b \in Buckets : buckets[b].exists })]
    /\ UNCHANGED indexVars

\* pipe: the next enumerated path is handed to BucketStream._transform
LsDeliver ==
    /\ lsrun.pc = "flowing"
    /\ lsrun.files # <<>>
    /\ lsrun' = [lsrun EXCEPT !.pc = "transform"]
    /\ UNCHANGED indexVars

\* BucketStream._transform(chunk, enc, cb): bucketEntries(chunk), push the
\* last entry of each key, cb(null); on ENOENT the catch calls no cb
LsTransform ==
    LET b == Head(lsrun.files)
    IN  /\ lsrun.pc = "transform"
        /\ lsrun' = IF buckets[b].exists
                     THEN [lsrun EXCEPT !.pc = "flowing", !.files = Tail(lsrun.files),
                                        !.res = [k \in Keys |->
                                                    IF Pushed(buckets, b, k).present
                                                    THEN Pushed(buckets, b, k)
                                                    ELSE lsrun.res[k]]]
                     ELSE [lsrun EXCEPT !.pc = "awaiting_cb"]
        /\ UNCHANGED indexVars

\* the enumeration is over and every path was transformed: the stream ends
LsStreamEnd ==
    /\ lsrun.pc = "flowing"
    /\ lsrun.files = <<>>
    /\ lsrun' = [lsrun EXCEPT !.pc = "ended"]
    /\ UNCHANGED indexVars

\* rm.all(cache): rimraf of content-* and index-*
RmAll ==
    /\ \E b \in Buckets : buckets[b].exists
    /\ buckets' = [b \in Buckets |-> NoFile]
    /\ blobs' = [f \in DOMAIN blobs |-> NoFile]
    /\ log' = [b \in Buckets |-> <<>>]
    /\ found' = NoFound
    /\ listed' = NoListed
    /\ UNCHANGED <<now, wtmp, wctx>>

----------------------------------------------------------------------------
(* DestCache with persistent = true: persist and the constructor *)

\* the tokens of JSON.stringify([...this]): "[", one [key, entry] pair per
\* key, "]"
ArrOpen == [t |-> "[", k |-> 0, v |-> NoEntry]
ArrClose == [t |-> "]", k |-> 0, v |-> NoEntry]
Pair(k, e) == [t |-> "pair", k |-> k, v |-> e]

\* JSON.stringify([...this]) of the map m
Snapshot(m) ==
    <<ArrOpen>> \o [i \in 1..Cardinality({ k \in Keys : m[k].present }) |->
                       LET k == Sorted({ x \in Keys : m[x].present })[i] IN Pair(k, m[k])]
               \o <<ArrClose>>

\* a write of new at position 0 of a file that holds old
Overlay(old, new) == new \o SubSeq(old, Len(new) + 1, Len(old))

\* the text is a JSON array of pairs
StateValid(text) ==
    /\ Len(text) >= 2
    /\ text[1] = ArrOpen
    /\ text[Len(text)] = ArrClose
    /\ \A i \in 2..(Len(text) - 1) : text[i].t = "pair"

NoSecond == [done |-> FALSE, at |-> 0, map |-> [k \in Keys |-> NoEntry]]

PersistInit ==
    pst = [file |-> NoFile, snap |-> [p \in Procs |-> <<>>], required |-> NoFile,
           second |-> NoSecond, late |-> {}]

\* set of a persistent instance: super.set(key, entry), then persist() takes
\* JSON.stringify([...this]) and starts writeFile
SetEndPersistent(p) ==
    LET c == ctx[p]
    IN  /\ c.pc = "set_end"
        /\ map' = [map EXCEPT ![c.key] = c.entry]
        /\ stored' = [stored EXCEPT ![c.key] = StoredBy(c.op, Bytes(c.data))]
        /\ ctx' = [ctx EXCEPT ![p].pc = "persist_open"]
        /\ pst' = [pst EXCEPT !.snap[p] = Snapshot(map')]
        /\ UNCHANGED <<disk, tmp>>

\* writeFile(state file, text): open with flag 'w' creates or truncates
PersistOpen(p) ==
    /\ ctx[p].pc = "persist_open"
    /\ ctx' = [ctx EXCEPT ![p].pc = "persist_write"]
    /\ pst' = [pst EXCEPT !.file = File(<<>>)]
    /\ UNCHANGED <<map, disk, tmp, stored>>

\* writeFile: the text is written from position 0, the file is closed, set
\* returns the entry
PersistWrite(p) ==
    /\ ctx[p].pc = "persist_write"
    /\ ctx' = [ctx EXCEPT ![p].pc = "done", ![p].res = Ok(<<>>, ctx[p].entry)]
    /\ pst' = [pst EXCEPT !.file = File(Overlay(pst.file.bytes, pst.snap[p]))]
    /\ UNCHANGED <<map, disk, tmp, stored>>

\* the loop of the constructor over initState: statSync(v.path) has to
\* succeed; a size that differs is only logged; a file changed more than a
\* second after the entry was made (pst.late) is skipped
RECURSIVE Restore(_, _)
Restore(pairs, acc) ==
    IF pairs = <<>> THEN acc
    ELSE Restore(Tail(pairs),
                 IF /\ disk[Head(pairs).v.path].exists
                    /\ Head(pairs).v.path \notin pst.late
                 THEN [acc EXCEPT ![Head(pairs).k] = Head(pairs).v] ELSE acc)

\* persist() of a call that runs alone: writeFile(state file,
\* JSON.stringify([...this])) from its open to its close
Persist == pst' = [pst EXCEPT !.file = File(Snapshot(map'))]

\* set and setStream of a persistent instance, run alone: super.set, persist
PersistentSetEnd(p) == SetEnd(p) /\ Persist
PersistentMoveEnd(p) == MoveEnd(p) /\ Persist

\* delete of a persistent instance: persist after super.delete removed a key
PersistentDeleteStart(p, k) ==
    /\ DeleteStart(p, k)
    /\ IF map[k].present THEN Persist ELSE UNCHANGED pst

\* getStream of a persistent instance: the error handler calls this.delete
PersistentGetStreamRead(p) ==
    /\ GetStreamRead(p)
    /\ IF ctx'[p].pc = "del_scan" THEN Persist ELSE UNCHANGED pst

\* something outside the cache rewrites a content file more than a second
\* after the entries that refer to it were made
CorruptLate(f, b) ==
    /\ Corrupt(f, b)
    /\ pst' = [pst EXCEPT !.late = @ \cup {f}]

\* require(state file): the module cache answers if the file was loaded
\* before; a missing file or a text that is no JSON throws
Required ==
    IF pst.required.exists THEN pst.required
    ELSE IF pst.file.exists /\ StateValid(pst.file.bytes) THEN pst.file
    ELSE NoFile

\* new DestCache(cachePath, true) in the process of the first instance,
\* when no call is in progress
Construct ==
    /\ AllIdle
    /\ pst' = [pst EXCEPT
                 !.required = Required,
                 !.second = [done |-> TRUE, at |-> calls,
                             map |-> IF Required.exists
                                     THEN Restore(SubSeq(Required.bytes, 2, Len(Required.bytes) - 1),
                                                  NoSecond.map)
                                     ELSE NoSecond.map]]
    /\ UNCHANGED cacheVars

----------------------------------------------------------------------------
(* Facade: put.js, get.js, rm.js *)

\* opts.memoize as the caller gives it
Memoize == {"undefined", "true", "false"}

IdleFac == [pc |-> "idle", op |-> "none", key |-> 1, memoize |-> "undefined",
            res |-> NoRes, at |-> 0]

NoMemo == [present |-> FALSE, integrity |-> Null, data |-> <<>>]

FacadeInit ==
    /\ fac = IdleFac
    /\ memo = [k \in Keys |-> NoMemo]

\* putData(cache, key, data, opts) up to `await write(cache, data, opts)`
PutStart(k, d, o, mz) ==
    /\ fac.pc = "idle"
    /\ fac' = [IdleFac EXCEPT !.pc = "put_write", !.op = "put", !.key = k, !.memoize = mz]
    /\ WriteStart(1, d, o)
    /\ UNCHANGED <<indexVars, memo>>

\* putStream(cache, key, opts), written with the bytes of d and ended
PutStreamStart(k, d, o, mz) ==
    /\ fac.pc = "idle"
    /\ fac' = [IdleFac EXCEPT !.pc = "put_write", !.op = "put.stream", !.key = k,
                              !.memoize = mz]
    /\ WriteStreamStart(1, d, o)
    /\ UNCHANGED <<indexVars, memo>>

\* a put that appends its entry whatever became of the content write
PutAfterWrite_InsertsAnyway ==
    LET c == wctx[1]
    IN  /\ fac.pc = "put_write"
        /\ c.pc = "done"
        /\ Insert(fac.key, stringify(Sri512(Bytes(c.data))), Len(Bytes(c.data)), 5)
        /\ fac' = [fac EXCEPT !.pc = "done", !.res = c.res, !.at = now']
        /\ wctx' = [wctx EXCEPT ![1] = IdleW]
        /\ wtmp' = [wtmp EXCEPT ![1] = NoFile]
        /\ UNCHANGED <<blobs, memo>>

\* putData after `await write`: index.insert(cache, key, res.integrity,
\* {size: res.size}), memo.put if opts.memoize; a write that rejected makes
\* put reject.  putStream: the callback of contentStream.end, which an
\* errored content stream never calls.
PutAfterWrite ==
    LET c == wctx[1]
    IN  /\ fac.pc = "put_write"
        /\ c.pc = "done"
        /\ IF c.res.status = "ok"
           THEN /\ Insert(fac.key, stringify(c.res.entry.integrity), c.res.entry.size, 5)
                /\ memo' = IF fac.memoize = "true"
                            THEN [memo EXCEPT ![fac.key] =
                                     [present |-> TRUE,
                                      integrity |-> stringify(c.res.entry.integrity),
                                      data |-> Bytes(c.data)]]
                            ELSE memo
           ELSE UNCHANGED <<indexVars, memo>>
        /\ fac' = [fac EXCEPT !.pc = "done", !.res = c.res, !.at = now']
        /\ wctx' = [wctx EXCEPT ![1] = IdleW]
        /\ wtmp' = [wtmp EXCEPT ![1] = NoFile]
        /\ UNCHANGED blobs

\* getData(false, cache, key, opts): the memoized value unless opts.memoize
\* is false, else index.find and read; memo.put if opts.memoize
getData(k, mz) ==
    IF memo[k].present /\ mz # "false"
    THEN Ok(memo[k].data, NoEntry)
    ELSE IF ~find(buckets, k).present THEN Err("ENOENT")
    ELSE read(blobs, parse(find(buckets, k).integrity), NoSize)

\* a caller runs get(cache, key, opts) or get.stream(cache, key, opts) and
\* reads it to its end
Get(op, k, mz) ==
    /\ fac.pc = "idle"
    /\ fac' = [IdleFac EXCEPT !.pc = "done", !.op = op, !.key = k, !.memoize = mz,
                              !.res = getData(k, mz), !.at = now]
    /\ memo' = IF mz = "true" /\ getData(k, mz).status = "ok" /\ ~memo[k].present
               THEN [memo EXCEPT ![k] = [present |-> TRUE,
                                         integrity |-> find(buckets, k).integrity,
                                         data |-> getData(k, mz).bytes]]
               ELSE memo
    /\ UNCHANGED <<storeVars, indexVars>>

\* rm.entry(cache, key): memo.clearMemoized(); index.delete(cache, key)
RmEntry(k) ==
    /\ fac.pc = "idle"
    /\ memo' = [x \in Keys |-> NoMemo]
    /\ Del(k)
    /\ UNCHANGED <<storeVars, fac>>

\* the caller takes the result
FacadeReturn ==
    /\ fac.pc = "done"
    /\ fac' = IdleFac
    /\ UNCHANGED <<storeVars, indexVars, memo>>

----------------------------------------------------------------------------
(* Content store: integrity values with several digests *)

\* integrity values of one algorithm with one or two digests, in the order
\* given
MultiPaths == { sha512(<<97>>), sha512(<<98>>) }
DigestLists ==
    { <<f>> : f \in MultiPaths } \cup
    { ds \in MultiPaths \X MultiPaths : ds[1] # ds[2] }

\* what fn made of one digest: it threw res, or it returned res
Threw(r) == [threw |-> TRUE, res |-> r]
Returned(r) == [threw |-> FALSE, res |-> r]

\* withContentSri(cache, integrity, fn): with one digest fn's outcome; with
\* several, the first outcome that is not an exception, else the last
\* exception
RECURSIVE withContentSri(_)
withContentSri(outs) ==
    IF Len(outs) <= 1 THEN Head(outs)
    ELSE IF ~Head(outs).threw THEN Head(outs)
    ELSE IF Len(Tail(outs)) = 1 THEN Head(Tail(outs))
    ELSE withContentSri(Tail(outs))

\* the callback of read: readFile, the size check, checkData
ReadFn(store, f) ==
    LET r == read(store, <<"sha512", f>>, NoSize)
    IN  IF r.status = "ok" THEN Returned(r) ELSE Threw(r)

\* the callback of hasContent: lstat; ENOENT is answered with false
HasFn(store, f) ==
    IF store[f].exists THEN Returned(Ok(<<>>, Entry(f, Len(store[f].bytes), <<"sha512", f>>)))
    ELSE Returned(NoRes)

\* hasContent(cache, integrity)
hasContent(store, ds) == withContentSri([i \in 1..Len(ds) |-> HasFn(store, ds[i])])

NoMulti == [done |-> FALSE, op |-> "none", digests |-> <<>>, out |-> Returned(NoRes)]

MultiInit == multi = NoMulti

\* a caller runs read(cache, integrity)
MultiRead(ds) ==
    /\ multi' = [done |-> TRUE, op |-> "read", digests |-> ds,
                 out |-> withContentSri([i \in 1..Len(ds) |-> ReadFn(blobs, ds[i])])]
    /\ UNCHANGED <<blobs, wtmp, wctx>>

\* a caller runs hasContent(cache, integrity)
MultiHas(ds) ==
    /\ multi' = [done |-> TRUE, op |-> "hasContent", digests |-> ds, out |-> hasContent(blobs, ds)]
    /\ UNCHANGED <<blobs, wtmp, wctx>>

\* rm(cache, integrity) of lib/content/rm: hasContent, then rimraf of the
\* path of content.sri
MultiRm(ds) ==
    LET content == hasContent(blobs, ds)
    IN  /\ multi' = [done |-> TRUE, op |-> "rm", digests |-> ds, out |-> content]
        /\ blobs' = IF content.res.status = "ok"
                    THEN [blobs EXCEPT ![contentPath(content.res.entry.integrity)] = NoFile]
                    ELSE blobs
        /\ UNCHANGED <<wtmp, wctx>>

\* the blob files change between the calls
MultiPlace(f, b) ==
    /\ ~blobs[f].exists
    /\ blobs' = [blobs EXCEPT ![f] = File(b)]
    /\ multi' = NoMulti
    /\ UNCHANGED <<wtmp, wctx>>

Init ==
    /\ CacheInit /\ StoreInit /\ IndexInit /\ VerifyInit
    /\ FailInit /\ StreamInit /\ LsInit /\ PersistInit /\ FacadeInit
    /\ MultiInit

----------------------------------------------------------------------------
(* Specifications *)

\* a step of a DestCache call leaves the rest alone
Steady == UNCHANGED <<calls, storeVars, indexVars, verifyVars, failVars, moreVars, lastVars>>

\* one DestCache call at a time, nothing else touches the directory
\* (with no file changed from outside a get never finds a file that fails its
\* check, so the step that follows such a find belongs to NextCorrupt)
NextSeq ==
    \E p \in {1} :
        \/ \E k \in Keys, d \in DataInputs : AllIdle /\ SetStart(p, k, d) /\ Steady
        \/ \E k \in Keys, d \in DataInputs : AllIdle /\ SetStreamStart(p, k, d) /\ Steady
        \/ \E k \in Keys : AllIdle /\ DeleteStart(p, k) /\ Steady
        \/ \E k \in Keys : AllIdle /\ GetStart(p, k) /\ Steady
        \/ \E k \in Keys : AllIdle /\ GetStreamStart(p, k) /\ Steady
        \/ SetOpen(p) /\ Steady
        \/ SetWrite(p) /\ Steady
        \/ SetCheck(p) /\ Steady
        \/ SetEnd(p) /\ Steady
        \/ SetStreamPipe(p) /\ Steady
        \/ MoveCheck(p) /\ Steady
        \/ MoveUnlinkTmp(p) /\ Steady
        \/ MoveRename(p) /\ Steady
        \/ MoveEnd(p) /\ Steady
        \/ DeleteScan(p) /\ Steady
        \/ DeleteUnlink(p) /\ Steady
        \/ GetRead(p) /\ Steady
        \/ GetStreamRead(p) /\ Steady
        \/ Return(p) /\ Steady

SpecSeq == Init /\ [][NextSeq]_vars

\* one call at a time, and content files may be changed from outside
NextCorrupt ==
    \/ NextSeq
    \/ \E p \in {1} : GetUnlink(p) /\ Steady
    \/ \E f \in Paths, b \in AllBytes : Corrupt(f, b) /\ Steady

SpecCorrupt == Init /\ [][NextCorrupt]_vars

\* a concurrent call is issued
Issue ==
    /\ calls < MaxCalls
    /\ calls' = calls + 1
    /\ UNCHANGED <<storeVars, indexVars, verifyVars, failVars, moreVars, lastVars>>

\* concurrent set and setStream calls of one instance
NextPut ==
    \E p \in Procs :
        \/ \E k \in Keys, d \in DataInputs : SetStart(p, k, d) /\ Issue
        \/ \E k \in Keys, d \in DataInputs : SetStreamStart(p, k, d) /\ Issue
        \/ SetOpen(p) /\ Steady
        \/ SetWrite(p) /\ Steady
        \/ SetCheck(p) /\ Steady
        \/ SetEnd(p) /\ Steady
        \/ SetStreamPipe(p) /\ Steady
        \/ MoveCheck(p) /\ Steady
        \/ MoveUnlinkTmp(p) /\ Steady
        \/ MoveRename(p) /\ Steady
        \/ MoveEnd(p) /\ Steady
        \/ Return(p) /\ Steady

SpecPut == Init /\ [][NextPut]_vars

\* a step of the content store leaves the rest alone
StoreOnly == UNCHANGED <<cacheVars, calls, indexVars, verifyVars, failVars, moreVars, lastVars>>

\* write, write.stream and read of the content store
NextStore ==
    \E p \in {1} :
        \/ \E d \in DataInputs \cup {NoData}, o \in WriteOpts : WriteStart(p, d, o) /\ StoreOnly
        \/ \E d \in DataInputs \cup {NoData}, o \in WriteOpts : WriteStreamStart(p, d, o) /\ StoreOnly
        \/ MakeTmp(p) /\ StoreOnly
        \/ WriteTmp(p) /\ StoreOnly
        \/ PipeToTmp(p) /\ StoreOnly
        \/ PipeCleanup(p) /\ StoreOnly
        \/ MoveToDestination(p) /\ StoreOnly
        \/ \E b \in AllBytes, sz \in {NoSize, 1} : ReadBlob(p, Sri512(b), sz) /\ StoreOnly
        \/ WriteReturn(p) /\ StoreOnly

SpecStore == Init /\ [][NextStore]_vars

\* a step of the key index leaves the rest alone
IndexOnly == UNCHANGED <<cacheVars, calls, storeVars, verifyVars, failVars, moreVars, lastVars>>

\* a step of verify or of its environment leaves the DestCache instance alone
VerifyOnly == UNCHANGED <<cacheVars, calls, failVars, moreVars, lastVars>>

\* inserts, deletions, interrupted appends and lookups on the key index
NextIndex ==
    \/ \E k \in Keys, i \in IndexSris, sz \in IndexSizes, m \in IndexMetadata :
          Insert(k, i, sz, m) /\ IndexOnly
    \/ \E k \in Keys : Del(k) /\ IndexOnly
    \/ \E b \in Buckets, n \in CrashPoints : CrashedAppend(b, n) /\ IndexOnly
    \/ \E k \in Keys : Find(k) /\ IndexOnly
    \/ Ls /\ IndexOnly

SpecIndex == Init /\ [][NextIndex]_vars

\* inserts, deletions and lookups, with one line of a bucket file damaged
\* from outside
NextDamage ==
    \/ \E k \in Keys : Insert(k, stringify(Sri512(<<97>>)), 1, 5) /\ IndexOnly
    \/ \E k \in Keys : Del(k) /\ IndexOnly
    \/ \E k \in Keys : Find(k) /\ IndexOnly
    \/ Ls /\ IndexOnly
    \/ \E b \in Buckets, n \in DamagePoints : TruncateLine(b, n) /\ IndexOnly
    \/ \E b \in Buckets, n \in DamagePoints : AlterLine(b, n) /\ IndexOnly

SpecDamage == Init /\ [][NextDamage]_vars

\* the blob files and the bytes a cache holds when verify starts
VerifyPaths == { sha512(<<97>>), sha512(<<98>>) }
VerifyBytes == { <<97>>, <<98>> }

\* the index is filled before verify starts, key after key
Setup(k) ==
    /\ vrf.pc = "idle"
    /\ Appended < SetupLines
    /\ \A b \in Buckets : \A n \in 1..Len(log[b]) : log[b][n].key <= k

\* the steps of one verify pass, the bucket rebuilds it starts included
VerifyPass ==
    \/ \E flt \in Filters : VerifyStart(flt)
    \/ FixPerms
    \/ GarbageCollectMark
    \/ VerifyContentStat
    \/ VerifyContentCheck
    \/ VerifyContentUnlink
    \/ OrphanStat
    \/ OrphanRimraf
    \/ GarbageCollectReturn
    \/ RebuildIndexStart
    \/ \E b \in Buckets : RebuildBucketTruncate(b)
    \/ \E b \in Buckets : RebuildBucketStat(b)
    \/ \E b \in Buckets : RebuildBucketInsert(b)
    \/ RebuildIndexReturn
    \/ CleanTmp
    \/ WriteVerifile
    \/ VerifyReturn

\* one verify pass over a cache that nothing else touches
NextVerify ==
    \/ \E k \in Keys, i \in IndexSris : Setup(k) /\ Insert(k, i, 1, 5) /\ IndexOnly
    \/ \E k \in Keys : Setup(k) /\ Del(k) /\ IndexOnly
    \/ \E f \in VerifyPaths, b \in VerifyBytes : PlaceBlob(f, b) /\ VerifyOnly
    \/ VerifyPass /\ VerifyOnly

SpecVerify == Init /\ [][NextVerify]_vars

\* garbageCollect is walking the content directory
Sweeping == vrf.pc \in {"sweep", "vc_check", "vc_unlink", "or_rimraf"}

\* a bucket rebuild has been started and has not come to its end
Rebuilding == \E b \in Buckets : vrf.tasks[b].state \in {"trunc", "stat", "insert"}

\* one verify pass, with another process that removes blob files during the
\* sweep, lookups during the bucket rebuilds, and bucket rebuilds that fail
NextRace ==
    \/ NextVerify
    \/ \E f \in VerifyPaths : Sweeping /\ ExternalUnlink(f) /\ VerifyOnly
    \/ \E b \in Buckets : RebuildBucketFail(b) /\ VerifyOnly
    \/ \E k \in Keys : Rebuilding /\ Find(k) /\ IndexOnly

SpecRace == Init /\ [][NextRace]_vars

\* a step of a DestCache call that is not a writeFile that fails
NoFail == UNCHANGED <<calls, storeVars, indexVars, verifyVars, wfail, moreVars, lastVars>>

\* a writeFile of a DestCache call fails
Failing == UNCHANGED <<calls, storeVars, indexVars, verifyVars, moreVars, lastVars>>

\* a call starts: no writeFile of it has failed
Fresh(p) ==
    /\ AllIdle
    /\ wfail' = [wfail EXCEPT ![p] = ""]
    /\ UNCHANGED <<calls, storeVars, indexVars, verifyVars, moreVars, lastVars>>

\* one DestCache call at a time, with writeFile calls and streams that fail
NextFail ==
    \E p \in {1} :
        \/ \E k \in Keys, d \in FailInputs : SetStart(p, k, d) /\ Fresh(p)
        \/ \E k \in Keys, d \in FailInputs : SetStreamStart(p, k, d) /\ Fresh(p)
        \/ \E k \in Keys : DeleteStart(p, k) /\ Fresh(p)
        \/ SetOpen(p) /\ NoFail
        \/ \E e \in WriteFileErrors : SetOpenFail(p, e) /\ Failing
        \/ SetWrite(p) /\ NoFail
        \/ SetCheck(p) /\ NoFail
        \/ SetEnd(p) /\ NoFail
        \/ SetStreamPipe(p) /\ NoFail
        \/ \E e \in StreamErrors, made \in BOOLEAN : SetStreamPipeFail(p, e, made) /\ NoFail
        \/ MoveCheck(p) /\ NoFail
        \/ MoveUnlinkTmp(p) /\ NoFail
        \/ MoveRename(p) /\ NoFail
        \/ MoveEnd(p) /\ NoFail
        \/ DeleteScan(p) /\ NoFail
        \/ DeleteUnlink(p) /\ NoFail
        \/ Return(p) /\ NoFail

SpecFail == Init /\ [][NextFail]_vars

\* a step of a stream writer
Writing == UNCHANGED <<calls, storeVars, indexVars, verifyVars, failVars, lsrun, pst, fac, memo, lastVars>>

\* a step of _moveToCacheLocation and the return
Moving == UNCHANGED <<calls, storeVars, indexVars, verifyVars, failVars, moreVars, lastVars>>

\* stream writers, one at a time, written chunk by chunk and ended
NextStream ==
    \E p \in {1} :
        \/ \E k \in Keys, op \in WriterOps, chunks \in ChunkInputs :
              WriterStart(p, k, op, chunks) /\ Writing
        \/ WriterWrite(p) /\ Writing
        \/ WriterFinal(p) /\ Writing
        \/ MoveCheck(p) /\ Moving
        \/ MoveUnlinkTmp(p) /\ Moving
        \/ MoveRename(p) /\ Moving
        \/ MoveEnd(p) /\ Moving
        \/ Return(p) /\ Moving

SpecStream == Init /\ [][NextStream]_vars

\* a step of an lsStream run
Listing == UNCHANGED <<cacheVars, calls, storeVars, verifyVars, failVars, ws, pst, fac, memo, lastVars>>

\* the index is filled while no enumeration runs
LsSetup == lsrun.pc = "idle" /\ now < SetupLines

\* entries are appended, then the index is enumerated while rm.all may run
NextLs ==
    \/ \E k \in Keys : LsSetup /\ Insert(k, stringify(Sri512(<<97>>)), 1, 5) /\ IndexOnly
    \/ \E k \in Keys : LsSetup /\ Del(k) /\ IndexOnly
    \/ LsStreamStart /\ Listing
    \/ LsDeliver /\ Listing
    \/ LsTransform /\ Listing
    \/ LsStreamEnd /\ Listing
    \/ RmAll /\ UNCHANGED <<cacheVars, calls, verifyVars, failVars, moreVars, lastVars>>

SpecLs == Init /\ [][NextLs]_vars

\* a call of a persistent instance is issued
Reloading ==
    /\ calls < MaxCalls
    /\ calls' = calls + 1
    /\ UNCHANGED <<storeVars, indexVars, verifyVars, failVars, ws, lsrun, fac, memo, lastVars>>

\* a step of persist or of the constructor
Persisting == UNCHANGED <<calls, storeVars, indexVars, verifyVars, failVars, ws, lsrun, fac, memo, lastVars>>

\* concurrent set calls of a persistent instance, and new instances on the
\* same path
NextPersist ==
    \/ \E p \in Procs :
          \/ \E k \in Keys, d \in FailInputs : SetStart(p, k, d) /\ Issue
          \/ SetOpen(p) /\ Steady
          \/ SetWrite(p) /\ Steady
          \/ SetCheck(p) /\ Steady
          \/ SetEndPersistent(p) /\ Persisting
          \/ PersistOpen(p) /\ Persisting
          \/ PersistWrite(p) /\ Persisting
          \/ Return(p) /\ Steady
    \/ Construct /\ Persisting

SpecPersist == Init /\ [][NextPersist]_vars

\* a step of the facade
Facade == UNCHANGED <<cacheVars, calls, verifyVars, failVars, ws, lsrun, pst, lastVars>>

\* the index is filled while no facade call runs
FacadeSetup == fac.pc = "idle" /\ now < SetupLines

\* put and put.stream on a cache that holds some entries
NextPutFacade ==
    \/ \E k \in Keys : FacadeSetup /\ Insert(k, stringify(Sri512(<<97>>)), 1, 5) /\ IndexOnly
    \/ \E k \in Keys, d \in DataInputs \cup {NoData}, o \in WriteOpts, mz \in Memoize :
          PutStart(k, d, o, mz) /\ Facade
    \/ \E k \in Keys, d \in DataInputs \cup {NoData}, o \in WriteOpts, mz \in Memoize :
          PutStreamStart(k, d, o, mz) /\ Facade
    \/ MakeTmp(1) /\ StoreOnly
    \/ WriteTmp(1) /\ StoreOnly
    \/ PipeToTmp(1) /\ StoreOnly
    \/ PipeCleanup(1) /\ StoreOnly
    \/ MoveToDestination(1) /\ StoreOnly
    \/ PutAfterWrite /\ Facade
    \/ FacadeReturn /\ Facade

SpecPutFacade == Init /\ [][NextPutFacade]_vars

\* blobs a get can meet: the bytes "a" under their digest, intact or damaged
GetBlobs == { <<sha512(<<97>>), <<97>>>>, <<sha512(<<97>>), <<98>>>> }

\* get and get.stream on a cache whose entries and blobs come and go, by
\* this process (rm.entry) and by others (index.delete, rm.content)
NextGet ==
    \/ \E k \in Keys : Insert(k, stringify(Sri512(<<97>>)), 1, 5) /\ IndexOnly
    \/ \E k \in Keys : Del(k) /\ IndexOnly
    \/ \E fb \in GetBlobs : PlaceBlob(fb[1], fb[2]) /\ VerifyOnly
    \/ \E fb \in GetBlobs : ExternalUnlink(fb[1]) /\ VerifyOnly
    \/ \E k \in Keys : RmEntry(k) /\ Facade
    \/ \E k \in Keys, mz \in Memoize : Get("get", k, mz) /\ Facade
    \/ \E k \in Keys, mz \in Memoize : Get("get.stream", k, mz) /\ Facade
    \/ FacadeReturn /\ Facade

SpecGet == Init /\ [][NextGet]_vars

\* a call with several digests
Resolving == UNCHANGED <<cacheVars, calls, indexVars, verifyVars, failVars, moreVars>>

\* read, hasContent and rm with one or two digests, on blobs that come and go
NextMulti ==
    \/ \E f \in MultiPaths, b \in VerifyBytes : MultiPlace(f, b) /\ Resolving
    \/ \E ds \in DigestLists : MultiRead(ds) /\ Resolving
    \/ \E ds \in DigestLists : MultiHas(ds) /\ Resolving
    \/ \E ds \in DigestLists : MultiRm(ds) /\ Resolving

SpecMulti == Init /\ [][NextMulti]_vars

\* what the puts below are given: one Buffer, no expected size or integrity
PutInputs == { Buf(<<97>>) }
PlainOpts == [algorithms |-> 1, size |-> NoSize, integrity |-> NoIntegrity]

\* a verify pass with a put or put.stream of the same process running
\* between its steps
NextClean ==
    \/ NextVerify
    \/ \E k \in {1}, d \in PutInputs : PutStart(k, d, PlainOpts, "undefined") /\ Facade
    \/ \E k \in {1}, d \in PutInputs : PutStreamStart(k, d, PlainOpts, "undefined") /\ Facade
    \/ MakeTmp(1) /\ StoreOnly
    \/ WriteTmp(1) /\ StoreOnly
    \/ PipeToTmp(1) /\ StoreOnly
    \/ MoveToDestination(1) /\ StoreOnly
    \/ PutAfterWrite /\ Facade
    \/ FacadeReturn /\ Facade

SpecClean == Init /\ [][NextClean]_vars

\* the content files the calls below write, and what they are overwritten with
ReloadPaths == { md5(Bytes(d)) : d \in FailInputs }
ReloadBytes == { Bytes(d) : d \in FailInputs }

\* calls of a persistent instance run one at a time, content files rewritten
\* from outside between them, and new instances on the same path
NextReload ==
    \/ \E p \in {1} :
          \/ \E k \in Keys, d \in FailInputs : SetStart(p, k, d) /\ Issue
          \/ \E k \in Keys, d \in FailInputs : SetStreamStart(p, k, d) /\ Issue
          \/ \E k \in Keys : PersistentDeleteStart(p, k) /\ Reloading
          \/ \E k \in Keys : GetStart(p, k) /\ Issue
          \/ \E k \in Keys : GetStreamStart(p, k) /\ Issue
          \/ SetOpen(p) /\ Steady
          \/ SetWrite(p) /\ Steady
          \/ SetCheck(p) /\ Steady
          \/ PersistentSetEnd(p) /\ Persisting
          \/ SetStreamPipe(p) /\ Steady
          \/ MoveCheck(p) /\ Steady
          \/ MoveUnlinkTmp(p) /\ Steady
          \/ MoveRename(p) /\ Steady
          \/ PersistentMoveEnd(p) /\ Persisting
          \/ DeleteScan(p) /\ Steady
          \/ DeleteUnlink(p) /\ Steady
          \/ GetRead(p) /\ Steady
          \/ GetUnlink(p) /\ Steady
          \/ PersistentGetStreamRead(p) /\ Persisting
          \/ Return(p) /\ Steady
    \/ \E f \in ReloadPaths, b \in ReloadBytes : Corrupt(f, b) /\ Steady
    \/ \E f \in ReloadPaths, b \in ReloadBytes : CorruptLate(f, b) /\ Persisting
    \/ Construct /\ Persisting

SpecReload == Init /\ [][NextReload]_vars

\* Buffer payloads, for which length and byte count agree
BufferInputs == { Buf(<<97>>), Buf(<<98>>) }

\* concurrent set, setStream and delete calls of one instance
NextMix ==
    \E p \in Procs :
        \/ \E k \in Keys, d \in BufferInputs : SetStart(p, k, d) /\ Issue
        \/ \E k \in Keys, d \in BufferInputs : SetStreamStart(p, k, d) /\ Issue
        \/ \E k \in Keys : DeleteStart(p, k) /\ Issue
        \/ SetOpen(p) /\ Steady
        \/ SetWrite(p) /\ Steady
        \/ SetCheck(p) /\ Steady
        \/ SetEnd(p) /\ Steady
        \/ SetStreamPipe(p) /\ Steady
        \/ MoveCheck(p) /\ Steady
        \/ MoveUnlinkTmp(p) /\ Steady
        \/ MoveRename(p) /\ Steady
        \/ MoveEnd(p) /\ Steady
        \/ DeleteScan(p) /\ Steady
        \/ DeleteUnlink(p) /\ Steady
        \/ Return(p) /\ Steady

SpecMix == Init /\ [][NextMix]_vars

\* the index of a cache with deleted and shadowed entries is filled before
\* verify starts, key after key
TombSetup(k) ==
    /\ vrf.pc = "idle"
    /\ Appended < TombLines
    /\ \A b \in Buckets : \A n \in 1..Len(log[b]) : log[b][n].key <= k

\* verify on a cache whose keys share one blob and have been deleted or
\* written again
NextTomb ==
    \/ \E k \in Keys : TombSetup(k) /\ Insert(k, stringify(Sri512(<<97>>)), 1, 5) /\ IndexOnly
    \/ \E k \in Keys : TombSetup(k) /\ Del(k) /\ IndexOnly
    \/ PlaceBlob(sha512(<<97>>), <<97>>) /\ VerifyOnly
    \/ VerifyPass /\ VerifyOnly

SpecTomb == Init /\ [][NextTomb]_vars

----------------------------------------------------------------------------
(* Properties of the DestCache class *)

NoneRunning == \A p \in Procs : ctx[p].pc \in {"idle", "done"}

Finished(p, ops) == ctx[p].pc = "done" /\ ctx[p].op \in ops

\* the number of bytes of a payload on disk
ByteLength(d) == Len(Bytes(d))

\* C1: once set(k, P) or setStream(k, P) has completed and nothing has touched
\* k or its file since, has(k) reports the byte length of P as size and get(k)
\* resolves to the bytes of P.
C1_RoundTrip ==
    \A p \in Procs :
        /\ Finished(p, {"set", "setStream"}) /\ ctx[p].res.status = "ok"
              => /\ has(ctx[p].key).present
                 /\ has(ctx[p].key).size = ByteLength(ctx[p].data)
        /\ Finished(p, {"get"}) /\ stored[ctx[p].key].set
              => /\ ctx[p].res.status = "ok"
                 /\ ctx[p].res.bytes = stored[ctx[p].key].bytes

\* the files of the cache directory that hold the bytes b
FilesHolding(b) == { f \in Paths : disk[f].exists /\ disk[f].bytes = b }

\* C2: when no call is running, every payload stored under some key is held
\* by exactly one content file, and two keys with the same payload report the
\* same path and the same integrity, whichever of set and setStream wrote them.
C2_Dedup ==
    NoneRunning =>
        \A k \in Keys : stored[k].set =>
            /\ map[k].present
            /\ disk[map[k].path] = File(stored[k].bytes)
            /\ Cardinality(FilesHolding(stored[k].bytes)) = 1
            /\ \A k2 \in Keys : stored[k2].set /\ stored[k2].bytes = stored[k].bytes
                  => /\ map[k2].path = map[k].path
                     /\ map[k2].integrity = map[k].integrity

\* two keys hold the same payload, one written by set, the other by setStream
C2_Witness ==
    \E p \in Procs, k2 \in Keys :
        /\ Finished(p, {"setStream"}) /\ ctx[p].res.status = "ok"
        /\ k2 # ctx[p].key
        /\ stored[ctx[p].key].set
        /\ stored[k2].set /\ stored[k2].via = "set"
        /\ stored[k2].bytes = Bytes(ctx[p].data)

\* a key still in the map has the integrity sri
StillReferenced(sri) == \E k \in Keys : map[k].present /\ map[k].integrity = sri

\* C3: delete(K) of a key of the map removes K from the map, leaves the content
\* file in place when another key of the map has the same integrity, and
\* removes the file when K was the last key with that integrity.
C3_ReferenceAwareDelete ==
    \A p \in Procs :
        Finished(p, {"delete"}) /\ ctx[p].entry.present =>
            /\ ~map[ctx[p].key].present
            /\ StillReferenced(ctx[p].entry.integrity)
                  => /\ disk[ctx[p].entry.path].exists
                     /\ checkData(disk[ctx[p].entry.path].bytes, ctx[p].entry.integrity)
            /\ ~StillReferenced(ctx[p].entry.integrity)
                  => ~disk[ctx[p].entry.path].exists

\* a delete has finished while another key shares the content
C3_Witness ==
    \E p \in Procs :
        /\ Finished(p, {"delete"}) /\ ctx[p].entry.present
        /\ StillReferenced(ctx[p].entry.integrity)
        /\ disk[ctx[p].entry.path].exists

\* the bytes a read found do not match the digest / the size of the entry
DigestDiffers(p) == md5(ctx[p].seen.bytes) # ctx[p].entry.integrity[2]
SizeDiffers(p) == Len(ctx[p].seen.bytes) # ctx[p].entry.size

\* C4: when the file of a key no longer matches its entry, get rejects with
\* EINTEGRITY, a consumed getStream fails with EBADSIZE if the size differs and
\* with EINTEGRITY if the size is equal and the bytes differ, and has(k) is
\* false once the failure is reported.
C4_CorruptReported ==
    \A p \in Procs :
        /\ Finished(p, {"get"}) /\ ctx[p].seen.exists /\ DigestDiffers(p)
              => ctx[p].res = Err("EINTEGRITY") /\ ~has(ctx[p].key).present
        /\ ctx[p].op = "getStream" /\ ctx[p].seen.exists /\ SizeDiffers(p)
              => ctx[p].res = Err("EBADSIZE") /\ ~has(ctx[p].key).present
        /\ ctx[p].op = "getStream" /\ ctx[p].seen.exists /\ ~SizeDiffers(p) /\ DigestDiffers(p)
              => ctx[p].res = Err("EINTEGRITY") /\ ~has(ctx[p].key).present

\* a getStream met a file of the right size with other bytes
C4_Witness ==
    \E p \in Procs :
        /\ Finished(p, {"getStream"}) /\ ctx[p].seen.exists
        /\ ~SizeDiffers(p) /\ DigestDiffers(p)
        /\ ctx[p].res = Err("EINTEGRITY")

\* only the payload b has been written so far
OnlyPayload(b) ==
    /\ \A q \in Procs : ctx[q].op # "none" => Bytes(ctx[q].data) = b
    /\ \A f \in Paths : disk[f].exists => f = md5(b)
    /\ \A k \in Keys : map[k].present => map[k].integrity = Sri(md5(b))

\* C5: concurrent set and setStream calls that all carry the same payload all
\* complete successfully and return the same path and integrity.
C5_ConcurrentIdenticalWrites ==
    \A p \in Procs :
        Finished(p, {"set", "setStream"}) /\ OnlyPayload(Bytes(ctx[p].data)) =>
            /\ ctx[p].res.status = "ok"
            /\ ctx[p].res.entry.path = md5(Bytes(ctx[p].data))
            /\ ctx[p].res.entry.integrity = Sri(md5(Bytes(ctx[p].data)))

\* C6: a file at a content path holds the complete payload whose digest names
\* the path, in every state, also in the middle of a set or setStream.
C6_AtomicPublication ==
    \A f \in Paths : disk[f].exists => md5(disk[f].bytes) = f

\* C7: a set or setStream of P that finds a file at P's content path succeeds
\* and leaves exactly P in that file, whether the file matched P or not.
C7_VerifyOrOverwrite ==
    \A p \in Procs :
        Finished(p, {"set", "setStream"}) =>
            /\ ctx[p].res.status = "ok"
            /\ disk[md5(Bytes(ctx[p].data))] = File(Bytes(ctx[p].data))

----------------------------------------------------------------------------
(* Properties of the content store *)

\* C8: once a write has made its temp file, the file it moves is that temp
\* file; and after write(cache, data) resolves with integrity d, the blob at
\* the content path of d holds the bytes of data and read(cache, d) returns them.
C8_WriteRoundTrip ==
    \A p \in Procs :
        wctx[p].op = "write" /\ wctx[p].pc = "done" /\ wctx[p].tmp # Undefined =>
            /\ wctx[p].src = wctx[p].tmp
            /\ wctx[p].res.status = "ok" =>
                  /\ blobs[contentPath(wctx[p].res.entry.integrity)] = File(Bytes(wctx[p].data))
                  /\ read(blobs, wctx[p].res.entry.integrity, NoSize)
                        = Ok(Bytes(wctx[p].data), NoEntry)

\* the payload has another size / another digest than the one expected
SizeMismatch(d, o) == o.size # NoSize /\ ByteLength(d) # o.size
DigestMismatch(d, o) == o.integrity # NoIntegrity /\ sha512(Bytes(d)) # o.integrity[2]

\* C9: a write or write.stream whose payload does not match the expected size
\* or integrity fails with EBADSIZE or EINTEGRITY, leaves no blob at the
\* payload's content path and leaves no temp file.
C9_WriteValidation ==
    \A p \in Procs :
        LET c == wctx[p]
            codes == (IF SizeMismatch(c.data, c.opts) THEN {"EBADSIZE"} ELSE {})
                       \cup (IF DigestMismatch(c.data, c.opts) THEN {"EINTEGRITY"} ELSE {})
        IN  (/\ c.pc = "done"
             /\ c.op \in {"write", "writeStream"}
             /\ c.opts.algorithms = 1
             /\ codes # {})
            => /\ c.res.status = "err"
               /\ c.res.code \in codes
               /\ ~wtmp[p].exists
               /\ ~blobs[contentPath(Sri512(Bytes(c.data)))].exists

----------------------------------------------------------------------------
(* Properties of the key index *)

\* the places in the log of bucket b that hold an entry of key k
Matching(b, k) == { i \in 1..Len(log[b]) : log[b][i].key = k }

Latest(b, k) == log[b][CHOOSE i \in Matching(b, k) : \A j \in Matching(b, k) : j <= i]

\* what find(k) has to return: the latest completed entry of k, unless it is a tombstone
ExpectedFind(k) ==
    LET b == bucketPath(k)
    IN  IF Matching(b, k) = {} THEN NoFormatted
        ELSE IF Latest(b, k).integrity = Null THEN NoFormatted
        ELSE [present |-> TRUE, key |-> k, integrity |-> Latest(b, k).integrity,
              path |-> Latest(b, k).integrity \div 10,
              size |-> Latest(b, k).size, time |-> Latest(b, k).time,
              metadata |-> Latest(b, k).metadata]

\* C10: find(key) returns the entry of the last checksum-valid line of the
\* key's bucket whose key is the requested one, and returns absent when that
\* line is a tombstone, when no line matches and when the bucket file is missing.
C10_FindLatest ==
    found.done => found.res = ExpectedFind(found.key)

\* find returned an entry that shadows an earlier entry of the same key, from
\* a bucket that also holds an interrupted line
C10_Witness ==
    /\ found.done /\ found.res.present
    /\ \E i \in Matching(bucketPath(found.key), found.key) :
          log[bucketPath(found.key)][i].integrity # found.res.integrity
    /\ Appended > Len(log[bucketPath(found.key)])

\* C11: ls yields, for every key, the latest entry of the key when that entry
\* is not a tombstone, and nothing when it is a tombstone or the key has no line.
C11_LsLatest ==
    listed.done => \A k \in Keys : listed.res[k] = ExpectedFind(k)

\* ls ran on an index where one key has an entry that shadows an earlier one
\* and another key ends in a tombstone
C11_Witness ==
    /\ listed.done
    /\ \E k \in Keys :
          /\ listed.res[k].present
          /\ \E i \in Matching(bucketPath(k), k) :
                log[bucketPath(k)][i].integrity # listed.res[k].integrity
    /\ \E k \in Keys :
          /\ ~listed.res[k].present
          /\ Matching(bucketPath(k), k) # {}

\* some line of some bucket file is damaged
SomeLineDamaged == Appended > LogLen(Buckets)

\* C12: with one line of a bucket damaged, find and ls return what the other
\* lines of the bucket say: the damaged line alone is discarded, the entries
\* before it and the entries appended after it are found.
C12_DamageContained ==
    SomeLineDamaged =>
        /\ found.done => found.res = ExpectedFind(found.key)
        /\ listed.done => \A k \in Keys : listed.res[k] = ExpectedFind(k)

\* find returned an entry appended after a damaged line of the same bucket
C12_Witness ==
    /\ SomeLineDamaged
    /\ found.done /\ found.res.present
    /\ LET b == bucketPath(found.key)
           line == LineText(log[b][Len(log[b])])
           text == buckets[b].bytes
       IN  /\ LinesIn({b}) > Len(log[b])
           /\ log[b][Len(log[b])].key = found.key
           /\ SubSeq(text, Len(text) - Len(line) + 1, Len(text)) = line

\* the text a is the beginning of the text b, and b has one line more
OneLineMore(a, b) ==
    /\ Len(b) > Len(a)
    /\ SubSeq(b, 1, Len(a)) = a
    /\ b[Len(a) + 1] = NL
    /\ \A i \in (Len(a) + 2)..Len(b) : b[i] # NL

\* C13: an insert or a tombstone insert of a key appends one line to the
\* bucket of the key and changes nothing else: no other bucket, no line
\* already there, no blob.
C13_AppendOnly ==
    [][log' # log =>
          /\ blobs' = blobs
          /\ \E b \in Buckets :
                /\ log'[b] # log[b]
                /\ bucketPath(log'[b][Len(log'[b])].key) = b
                /\ buckets'[b].exists
                /\ OneLineMore(buckets[b].bytes, buckets'[b].bytes)
                /\ \A c \in Buckets \ {b} : buckets'[c] = buckets[c]]_vars

\* an insert and a tombstone insert went into a bucket that had a line already
C13_Witness ==
    \E b \in Buckets :
        /\ Len(log[b]) >= 3
        /\ log[b][3].integrity = Null
        /\ log[b][2].integrity # Null

----------------------------------------------------------------------------
(* Properties of verify *)

\* garbageCollect has returned
Collected == vrf.pc \in {"rebuild", "onEmpty", "cleanTmp", "writeVerifile", "return"} \/ vrf.res = "ok"

\* when garbageCollect started, the current entry of a key the filter accepts
\* referred to the blob file f
Referenced(f) ==
    \E k \in Keys : /\ vrf.ls0[k].present
                    /\ Accepts(vrf.filter, vrf.ls0[k])
                    /\ vrf.ls0[k].integrity = stringify(<<"sha512", f>>)

\* when garbageCollect started, the file f held the bytes its name is the digest of
WasValid(f) == vrf.blobs0[f].exists /\ sha512(vrf.blobs0[f].bytes) = f

\* the blob files this pass deleted
Deleted == { f \in BlobPaths : vrf.blobs0[f].exists /\ ~blobs[f].exists }

\* C14: once garbageCollect has returned and nothing else touched the cache,
\* the content store holds exactly the blobs that were valid and referenced
\* by the current entry of a key the filter accepts, each with its bytes;
\* every other blob is gone.
C14_GcResult ==
    Collected =>
        \A f \in BlobPaths :
            IF WasValid(f) /\ Referenced(f)
            THEN blobs[f] = vrf.blobs0[f]
            ELSE ~blobs[f].exists

C14_Witness ==
    /\ Collected
    /\ \E f \in BlobPaths : WasValid(f) /\ Referenced(f) /\ blobs[f].exists
    /\ \E f \in Deleted : Referenced(f) /\ ~WasValid(f)

\* C15: in the statistics a verify pass returns, verifiedContent is the
\* number of blobs kept, reclaimedCount the number of blobs the pass deleted
\* and badContentCount the number of referenced blobs among them; with one
\* orphaned blob and one valid referenced blob, reclaimedCount = 1 and
\* verifiedContent = 1.
OneOrphanOneValid ==
    \E f, g \in BlobPaths :
        /\ f # g
        /\ \A h \in BlobPaths : vrf.blobs0[h].exists <=> h \in {f, g}
        /\ ~Referenced(f)
        /\ Referenced(g) /\ WasValid(g)

C15_GcReport ==
    (vrf.pc = "done" /\ vrf.res = "ok") =>
        /\ vrf.stats.verifiedContent = Cardinality({ f \in BlobPaths : blobs[f].exists })
        /\ vrf.stats.reclaimedCount = Cardinality(Deleted)
        /\ vrf.stats.badContentCount = Cardinality({ f \in Deleted : Referenced(f) })
        /\ OneOrphanOneValid =>
               vrf.stats.reclaimedCount = 1 /\ vrf.stats.verifiedContent = 1

C15_Witness ==
    /\ vrf.pc = "done" /\ vrf.res = "ok"
    /\ OneOrphanOneValid
    /\ vrf.stats.reclaimedCount = 1

\* rebuildIndex has returned to verify
RebuildReturned == vrf.pc \in {"cleanTmp", "writeVerifile", "return"} \/ vrf.res = "ok"

\* every bucket rebuild that rebuildIndex started has run to its end
BucketsRebuilt == \A b \in Buckets : vrf.tasks[b].state \in {"none", "done"}

\* the blob file an entry of ls refers to exists
ContentExists(e) == blobs[parse(e.integrity)[2]].exists

\* rebuildIndex and every bucket rebuild it started have completed
Rebuilt == RebuildReturned /\ BucketsRebuilt

\* ls yields exactly the keys whose entry before the rebuild was accepted by
\* the filter and has its blob, each with the integrity it had
KeysRebuilt ==
    /\ \A k \in Keys :
          ls(buckets)[k].present <=>
              /\ vrf.ls1[k].present
              /\ Accepts(vrf.filter, vrf.ls1[k])
              /\ ContentExists(vrf.ls1[k])
    /\ \A k \in Keys :
          ls(buckets)[k].present => ls(buckets)[k].integrity = vrf.ls1[k].integrity

\* the keys whose entry before the rebuild referred to a missing blob
Missing == { k \in Keys : vrf.ls1[k].present /\ ~ContentExists(vrf.ls1[k]) }

\* C16: once rebuildIndex has completed and nothing else touched the cache,
\* ls yields exactly the keys whose entry before the rebuild was accepted by
\* the filter and has its blob, with the integrity it had, and missingContent
\* counts every entry whose blob is missing once.
C16_Original ==
    RebuildReturned => KeysRebuilt /\ vrf.stats.missingContent = Cardinality(Missing)

\* what the rebuild does reach, once every bucket rebuild has ended:
\* missingContent counts once every entry that the filter accepts and whose
\* blob is missing; an entry the filter refuses is dropped without a look at
\* its blob.
RebuildResult ==
    Rebuilt =>
        /\ KeysRebuilt
        /\ vrf.stats.missingContent =
              Cardinality({ k \in Missing : Accepts(vrf.filter, vrf.ls1[k]) })
        /\ \A k \in Keys : ls(buckets)[k].present => ContentExists(ls(buckets)[k])

\* C17: the steps of verify run one after the other, each after the one
\* before it has finished with all it started: temp cleanup, the marker
\* write and the return of the report come after every bucket rebuild.
C17_StepOrder == (RebuildReturned \/ marker > 0) => BucketsRebuilt

\* C18: when the rebuild of a bucket fails after its truncation, verify
\* rejects and the marker is not written.
C18_FailsAtomically ==
    (\E b \in Buckets : vrf.tasks[b].state = "failed") => marker = 0 /\ vrf.res # "ok"

\* C19: a blob file of the walk that another process deletes before the
\* pass stats, verifies or removes it does not make the pass fail.
C19_ToleratedNotFound == vrf.res # "ENOENT"

\* C20: a find that runs during an index rebuild, with no insert in between,
\* returns the entry of a key that had one, accepted by the filter and with
\* its blob in place, before the rebuild.
C20_ReadsDuringRebuild ==
    \A k \in Keys :
        ( /\ found.done /\ found.key = k
          /\ vrf.tasks[bucketPath(k)].state \in {"trunc", "stat", "insert", "done"}
          /\ vrf.ls1[k].present
          /\ Accepts(vrf.filter, vrf.ls1[k])
          /\ ContentExists(vrf.ls1[k]) )
        => found.res.present /\ found.res.integrity = vrf.ls1[k].integrity

----------------------------------------------------------------------------
(* Properties of calls that fail *)

\* the setStream call of p has failed and the failure is with its caller
SetStreamFailed(p) ==
    ctx[p].pc = "done" /\ ctx[p].op = "setStream" /\ ctx[p].res.status = "err"

\* C21: when a setStream fails, at whatever step, the temp file it created
\* no longer exists when the failure is reported.
C21_TempRemoved == \A p \in Procs : SetStreamFailed(p) => ~tmp[p].exists

\* C22: a setStream whose input or hashing stream raises an error rejects
\* with that error, and no step of the call changes the map or a file at a
\* content path.
C22_FailedSetStream ==
    [][\A p \in Procs :
          /\ (ctx'[p].op = "setStream" /\ ctx'[p].pc = "ss_pipe") => map' = map /\ disk' = disk
          /\ (ctx[p].pc = "ss_pipe" /\ ctx'[p].pc = "done" /\ ctx'[p].res.status = "err") =>
                 /\ ctx'[p].res.code \in StreamErrors
                 /\ map' = map
                 /\ disk' = disk]_vars

C22_Witness ==
    \E p \in Procs : /\ SetStreamFailed(p)
                     /\ ctx[p].res.code \in StreamErrors
                     /\ map[ctx[p].key].present
                     /\ tmp[p].exists

\* the errors after which a call is made again: EMFILE (and EPERM on Windows)
Transient == {"EMFILE"}

\* C28: set calls writeFile again only after a writeFile that failed with a
\* transient error (the rewrite of a file that exists and fails its check
\* apart); after ENOENT it does not call it again.
C28_RetryOnlyTransient ==
    [][\A p \in Procs :
          (ctx[p].pc = "set_open" /\ ctx[p].i < 6 /\ ctx'[p] # ctx[p]) =>
              wfail[p] \in Transient \cup {""}]_vars

\* C30: when writeFile fails in set with an error that is neither
\* already-exists nor not-found (nor one that is retried), set rejects with
\* that error and its code.
C30_ErrorsPropagate ==
    \A p \in Procs :
        (ctx[p].pc = "done" /\ ctx[p].op = "set" /\ wfail[p] \in {"EACCES"}) =>
            ctx[p].res = Err(wfail[p])

----------------------------------------------------------------------------
(* Properties of the stream writers *)

\* the stream writer of p has finished
WriterFinished(p) == ctx[p].pc = "done" /\ ctx[p].op \in WriterOps /\ ctx[p].res.status = "ok"

\* C24: when a stream writer has finished, has(k) is an entry whose size is
\* the number of bytes written and whose integrity is the digest of those
\* bytes in order; the caching stream has passed on every chunk unchanged.
C24_WritersRecord ==
    \A p \in Procs :
        WriterFinished(p) =>
            /\ has(ctx[p].key).present
            /\ has(ctx[p].key).size = Len(Concat(ws[p].input))
            /\ has(ctx[p].key).integrity = Sri(md5(Concat(ws[p].input)))
            /\ disk[has(ctx[p].key).path] = File(Concat(ws[p].input))
            /\ ctx[p].op = "createCachingStream" => ws[p].out = ws[p].input

C24_Witness ==
    \E p \in Procs :
        /\ WriterFinished(p)
        /\ ctx[p].op = "createCachingStream"
        /\ Len(ws[p].input) = 2
        /\ has(ctx[p].key).size = 2

----------------------------------------------------------------------------
(* Properties of the enumeration *)

\* an lsStream run has started and has neither ended nor failed
LsRunning == lsrun.pc \in {"flowing", "transform", "awaiting_cb"}

\* the guards of LsDeliver, LsTransform and LsStreamEnd
LsCanStep ==
    \/ lsrun.pc = "flowing" /\ lsrun.files # <<>>
    \/ lsrun.pc = "transform"
    \/ lsrun.pc = "flowing" /\ lsrun.files = <<>>

\* C27: a run of lsStream never stalls: as long as it has not ended, it has
\* a next step, also when an enumerated bucket file is gone when it is read.
C27_LsNeverStalls == LsRunning => LsCanStep

----------------------------------------------------------------------------
(* Properties of persistence *)

\* a second instance was constructed after every set call so far returned
SecondIsCurrent == pst.second.done /\ pst.second.at = calls /\ AllIdle

\* C23: a persistent instance constructed when all set calls have completed
\* has the keys of the first instance.
C23_RestoresEveryKey ==
    SecondIsCurrent =>
        \A k \in Keys : pst.second.map[k].present <=> map[k].present

----------------------------------------------------------------------------
(* Properties of the facade *)

\* the blob of the last entry of bucket b, in the store after the step
LastBlobPublished(b) ==
    LET e == log'[b][Len(log'[b])]
    IN  e.integrity # Null => blobs'[contentPath(parse(e.integrity))].exists

GotNow == fac.pc = "done" /\ fac.op \in {"get", "get.stream"} /\ fac.at = now

\* C25: get and get.stream fail with ENOENT exactly when the key has no
\* index entry or its latest entry is a tombstone, and return no data then.
C25_NotFound ==
    GotNow =>
        /\ fac.res = Err("ENOENT") <=> ~find(buckets, fac.key).present
        /\ fac.res.status = "ok" => find(buckets, fac.key).present

----------------------------------------------------------------------------
(* Properties of the calls with several digests *)

\* the digests of the call whose blob file existed when the call was made;
\* for rm the file the call removed counts as well
Existing ==
    { i \in 1..Len(multi.digests) :
        \/ blobs[multi.digests[i]].exists
        \/ /\ multi.op = "rm"
           /\ multi.out.res.status = "ok"
           /\ multi.out.res.entry.path = multi.digests[i] }

\* the call found nothing: read threw ENOENT, hasContent and rm answered false
FoundNothing ==
    IF multi.op = "read" THEN multi.out.threw /\ multi.out.res.code = "ENOENT"
    ELSE multi.out.res.status # "ok"

\* C31: a call given several digests uses the first digest whose blob file
\* exists, and finds nothing only if no digest has a blob file.
C31_FirstExisting ==
    multi.done =>
        /\ FoundNothing <=> Existing = {}
        /\ (multi.op # "read" /\ Existing # {}) =>
              multi.out.res.entry.path =
                  multi.digests[CHOOSE i \in Existing : \A j \in Existing : i <= j]

----------------------------------------------------------------------------
(* Properties of verify with a filter, and of what a rebuild keeps *)

\* C32: after verify(filter) has completed with nothing else running, every
\* entry ls returns satisfies the filter and has its blob.
C32_ScopedVerify ==
    vrf.res = "ok" =>
        \A k \in Keys :
            ls(buckets)[k].present =>
                /\ Accepts(vrf.filter, ls(buckets)[k])
                /\ ContentExists(ls(buckets)[k])

\* C39: a key whose entry survives the rebuild has, once the rebuild and its
\* bucket rebuilds have ended, the size, metadata and time it had before.
C39_RebuildPreserves ==
    Rebuilt =>
        \A k \in Keys :
            find(buckets, k).present =>
                /\ find(buckets, k).size = vrf.ls1[k].size
                /\ find(buckets, k).metadata = vrf.ls1[k].metadata
                /\ find(buckets, k).time = vrf.ls1[k].time

\* verify has listed the index for its garbage collection
Listed == vrf.pc \notin {"idle", "fixPerms", "mark"}

\* C40: from the listing on and to the end of verify, a key that find or ls
\* returns was returned before verify, with the same integrity: no key whose
\* latest entry was a tombstone comes back and no shadowed entry shows.
C40_NoResurrection ==
    Listed =>
        \A k \in Keys :
            /\ find(buckets, k).present =>
                  vrf.ls0[k].present /\ find(buckets, k).integrity = vrf.ls0[k].integrity
            /\ ls(buckets)[k].present =>
                  vrf.ls0[k].present /\ ls(buckets)[k].integrity = vrf.ls0[k].integrity

\* before verify the key had an entry and then a tombstone, in a bucket
\* that verify has rebuilt for another key
DeletedAndRebuilt(k) ==
    LET l == vrf.log0[bucketPath(k)]
    IN  /\ \E i, j \in 1..Len(l) :
              /\ i < j
              /\ l[i].key = k /\ l[i].integrity # Null
              /\ l[j].key = k /\ l[j].integrity = Null
        /\ ~vrf.ls0[k].present
        /\ \E k2 \in Keys \ {k} :
              /\ bucketPath(k2) = bucketPath(k)
              /\ find(buckets, k2).present
              /\ find(buckets, k2).time > vrf.ls0[k2].time

C40_Witness ==
    /\ vrf.res = "ok"
    /\ BucketsRebuilt
    /\ \E k \in Keys : DeletedAndRebuilt(k) /\ ~find(buckets, k).present

----------------------------------------------------------------------------
(* Properties of the map and the files under removals and interleavings *)

\* C35: when a step of DestCache removes a content file, no key that is in
\* the map after the step has that file as its path.
C35_NoDanglingKeys ==
    [][\A f \in Paths :
          (disk[f].exists /\ ~disk'[f].exists) =>
              \A k \in Keys : ~(map'[k].present /\ map'[k].path = f)]_vars

\* C34: once all of the interleaved set, setStream and delete calls have
\* completed, every key of the map refers to a file that exists and whose
\* bytes match the integrity and size of the entry.
C34_MapMatchesDisk ==
    AllIdle =>
        \A k \in Keys :
            map[k].present =>
                /\ disk[map[k].path].exists
                /\ checkData(disk[map[k].path].bytes, map[k].integrity)
                /\ Len(disk[map[k].path].bytes) = map[k].size

----------------------------------------------------------------------------
(* Properties of a persistent instance whose calls run one at a time *)

\* C33: an entry of the saved state is restored by the constructor only if
\* its file exists and has the size recorded in the entry.
C33_ValidatedOnReload ==
    [][pst'.second # pst.second =>
          \A k \in Keys :
              pst'.second.map[k].present =>
                  /\ disk[pst'.second.map[k].path].exists
                  /\ Len(disk[pst'.second.map[k].path].bytes) = pst'.second.map[k].size]_vars

\* the call that has just completed changed the map
MapChanged(c) ==
    \/ c.op \in {"set", "setStream"} /\ c.res.status = "ok"
    \/ c.op = "delete" /\ c.res.entry.present
    \/ c.op \in {"get", "getStream"} /\ c.res.code \in {"EINTEGRITY", "EBADSIZE"}

\* C36: after each completed call that changed the map, the state file holds
\* exactly the entries of the map.
C36_StateTracksMap ==
    \A p \in Procs :
        (ctx[p].pc = "done" /\ MapChanged(ctx[p])) => pst.file = File(Snapshot(map))

----------------------------------------------------------------------------
(* Properties of a put that runs during a verify pass *)

\* the put and the verify pass have both completed
PutAndVerifyDone ==
    /\ fac.pc = "done"
    /\ fac.op \in {"put", "put.stream"}
    /\ vrf.pc = "done"

\* C37: when a put and a verify pass that ran interleaved have both
\* completed, the blob written by the put exists.
C37_PutSurvivesCollection ==
    PutAndVerifyDone =>
        \A d \in PutInputs : blobs[sha512(Bytes(d))] = File(Bytes(d))

\* the write of process p has been given a temp file and has not come to its end
WriteInProgress(p) == wctx[p].pc \in {"w_write", "ws_pipe", "ws_rimraf", "w_move"}

\* C38: the temp cleanup of verify removes no temp file of a write that is
\* still in progress.
C38_CleanTmpOnlyAbandoned ==
    [][(vrf.pc = "cleanTmp" /\ vrf'.pc = "writeVerifile") =>
          \A p \in Procs :
              (wtmp[p].exists /\ ~wtmp'[p].exists) => ~WriteInProgress(p)]_vars

====
